---- MODULE Spec2Model ----
(***************************************************************************)
(* Model of the git configuration reader of git-config-manager             *)
(* (internal/gitcfg): the record tokenizer parseGitConfigOutput, its       *)
(* helpers splitKeyValue and normalizeOrigin, the precedence resolver      *)
(* buildConfigValues, the topology resolver buildRepository, and the       *)
(* Service that tracks roots, scans them and reads configurations.         *)
(*                                                                         *)
(* A Go string or []byte is a sequence of one-character strings; the zero  *)
(* byte is the token NUL.  Indices returned by the search helpers are      *)
(* 1-based, and 0 stands for Go's -1 ("not found").                        *)
(***************************************************************************)
EXTENDS Integers, Sequences, FiniteSets, TLC

VARIABLES
    pc,           \* position of the call being modelled
    raw,          \* parseGitConfigOutput: the raw listing
    entries,      \* parseGitConfigOutput: the returned []gitConfigEntry
    err,          \* parseGitConfigOutput: the returned error
    values,       \* buildConfigValues: the returned map[string]ConfigValue
    keyValueRaw,  \* splitKeyValue: its argument
    key,          \* splitKeyValue: first result
    value,        \* splitKeyValue: second result
    origin,       \* normalizeOrigin: its argument
    file,         \* normalizeOrigin: first result
    line,         \* normalizeOrigin: second result
    roots,        \* Service.roots: the tracked roots
    repositories, \* Service.repositories: id -> Repository of the last Scan
    includeRules, \* Service.includeRules
    changeSets,   \* Service.changeSets
    call,         \* per caller: the Service call in progress and its locals
    tool,         \* what the git tool answers (the file system it looks at)
    now           \* time.Now(), as an instant

vars == <<pc, raw, entries, err, values, keyValueRaw, key, value, origin, file, line,
          roots, repositories, includeRules, changeSets, call, tool, now>>

configVars == <<raw, entries, err, values>>
splitVars == <<keyValueRaw, key, value>>
originVars == <<origin, file, line>>
sharedVars == <<roots, repositories, includeRules, changeSets>>
serviceVars == <<sharedVars, call, tool, now>>
readerVars == <<pc, raw, entries, err, values, keyValueRaw, key, value, origin, file, line>>

\* the specifications of the pure functions run without a Service
NoService ==
    /\ roots = {}
    /\ repositories = <<>>
    /\ includeRules = <<>>
    /\ changeSets = <<>>
    /\ call = <<>>
    /\ tool = <<>>
    /\ now = 0

\* the specifications of the Service do not use the variables above
NoReader ==
    /\ pc = "service"
    /\ raw = <<>> /\ entries = <<>> /\ err = "nil" /\ values = <<>>
    /\ keyValueRaw = <<>> /\ key = <<>> /\ value = <<>>
    /\ origin = <<>> /\ file = <<>> /\ line = 0

----------------------------------------------------------------------------
(* Characters and bounded string sets *)

NUL == "NUL"
LF == "\n"
NilError == "nil"

\* longest key/value unit drawn for splitKeyValue
MaxUnitLen == 5

RECURSIVE StringsUpTo(_, _)
StringsUpTo(alphabet, n) ==
    IF n = 0 THEN {<<>>}
    ELSE LET shorter == StringsUpTo(alphabet, n - 1)
         IN shorter \cup {Append(s, c) : s \in shorter, c \in alphabet}

\* bytes.IndexByte / strings.Index for a one-byte separator
Index(s, c) ==
    IF \E i \in 1..Len(s) : s[i] = c
    THEN CHOOSE i \in 1..Len(s) : s[i] = c /\ \A j \in 1..(i - 1) : s[j] # c
    ELSE 0

\* strings.LastIndex for a one-byte separator
LastIndex(s, c) ==
    IF \E i \in 1..Len(s) : s[i] = c
    THEN CHOOSE i \in 1..Len(s) : s[i] = c /\ \A j \in (i + 1)..Len(s) : s[j] # c
    ELSE 0

----------------------------------------------------------------------------
(* splitKeyValue *)

\* a plausible slip: the unit is cut at the last separator
SplitN2_AtLast(s, sep) ==
    LET i == LastIndex(s, sep)
    IN IF i = 0 THEN <<s>>
       ELSE <<SubSeq(s, 1, i - 1), SubSeq(s, i + 1, Len(s))>>

\* bytes.SplitN(raw, sep, 2): at most two parts, cut at the first separator
SplitN2(s, sep) ==
    LET i == Index(s, sep)
    IN IF i = 0 THEN <<s>>
       ELSE <<SubSeq(s, 1, i - 1), SubSeq(s, i + 1, Len(s))>>

splitKeyValue(unit) ==
    LET parts == SplitN2(unit, LF)
    IN IF Len(parts) = 0 THEN [key |-> <<>>, value |-> <<>>]
       ELSE IF Len(parts) = 1 THEN [key |-> parts[1], value |-> <<>>]
       ELSE [key |-> parts[1], value |-> parts[2]]

----------------------------------------------------------------------------
(* Specification of splitKeyValue alone: a unit is drawn, then split *)

UnitAlphabet == {LF, "a", "b"}

InitSplit ==
    /\ pc = "unit"
    /\ keyValueRaw \in StringsUpTo(UnitAlphabet, MaxUnitLen)
    /\ key = <<>>
    /\ value = <<>>
    /\ raw = <<>> /\ entries = <<>> /\ err = NilError /\ values = <<>>
    /\ origin = <<>> /\ file = <<>> /\ line = 0
    /\ NoService

SplitKeyValue ==
    /\ pc = "unit"
    /\ LET r == splitKeyValue(keyValueRaw)
       IN /\ key' = r.key
          /\ value' = r.value
    /\ pc' = "split"
    /\ UNCHANGED <<keyValueRaw, configVars, originVars, serviceVars>>

NextSplit == SplitKeyValue

SpecSplit == InitSplit /\ [][NextSplit]_vars

\* C7: once a unit is split, the key is the text before the unit's first
\* newline and the value is everything after that newline (later newlines
\* stay in the value); a unit without a newline is the key whole, with the
\* empty value.
C7_SplitAtFirstNewline ==
    pc = "split" =>
        LET newlines == {i \in 1..Len(keyValueRaw) : keyValueRaw[i] = LF}
        IN IF newlines = {}
           THEN key = keyValueRaw /\ value = <<>>
           ELSE LET first == CHOOSE i \in newlines : \A j \in newlines : i <= j
                IN /\ key = SubSeq(keyValueRaw, 1, first - 1)
                   /\ value = SubSeq(keyValueRaw, first + 1, Len(keyValueRaw))

\* C7 witness: a split unit with two newlines, the second kept in the value
C7_Witness ==
    /\ pc = "split"
    /\ Cardinality({i \in 1..Len(keyValueRaw) : keyValueRaw[i] = LF}) = 2
    /\ key # <<>>
    /\ \E i \in 1..Len(value) : value[i] = LF

----------------------------------------------------------------------------
(* strconv.Atoi, as normalizeOrigin uses it *)

Digits == <<"0", "1", "2", "3", "4", "5", "6", "7", "8", "9">>

IsDigit(c) == \E i \in 1..Len(Digits) : Digits[i] = c

DigitValue(c) == (CHOOSE i \in 1..Len(Digits) : Digits[i] = c) - 1

\* the decimal digits of the largest int of a 64-bit build, 1<<63 - 1
MaxIntDigits ==
    <<"9", "2", "2", "3", "3", "7", "2", "0", "3", "6",
      "8", "5", "4", "7", "7", "5", "8", "0", "7">>

\* the decimal digits of the magnitude of the smallest int, 1<<63
MinIntMagnitudeDigits ==
    <<"9", "2", "2", "3", "3", "7", "2", "0", "3", "6",
      "8", "5", "4", "7", "7", "5", "8", "0", "8">>

RECURSIVE StripLeadingZeros(_)
StripLeadingZeros(s) ==
    IF s # <<>> /\ s[1] = "0" THEN StripLeadingZeros(Tail(s)) ELSE s

\* a <= b for two digit strings of the same length
DigitsLeq(a, b) ==
    \/ a = b
    \/ \E i \in 1..Len(a) :
          /\ DigitValue(a[i]) < DigitValue(b[i])
          /\ \A j \in 1..(i - 1) : a[j] = b[j]

\* the magnitude of a digit string without leading zeros fits the int range
InIntRange(mag, limit) ==
    \/ Len(mag) < Len(limit)
    \/ Len(mag) = Len(limit) /\ DigitsLeq(mag, limit)

\* the number a digit string denotes (the strings drawn here that are in
\* range have few digits, so the number is one TLC can hold)
RECURSIVE DecimalValue(_)
DecimalValue(s) ==
    IF s = <<>> THEN 0
    ELSE 10 * DecimalValue(SubSeq(s, 1, Len(s) - 1)) + DigitValue(s[Len(s)])

\* strconv.Atoi(s): an optional sign, then decimal digits only; a syntax
\* error for anything else, a range error for a number outside int.  The
\* number returned with an error is dropped by the caller and is 0 here.
Atoi(s) ==
    LET signed == s # <<>> /\ s[1] \in {"+", "-"}
        negative == s # <<>> /\ s[1] = "-"
        body == IF signed THEN Tail(s) ELSE s
        mag == StripLeadingZeros(body)
        limit == IF negative THEN MinIntMagnitudeDigits ELSE MaxIntDigits
    IN IF body = <<>> \/ \E i \in 1..Len(body) : ~IsDigit(body[i])
       THEN [n |-> 0, err |-> "syntax"]
       ELSE IF ~InIntRange(mag, limit)
       THEN [n |-> 0, err |-> "range"]
       ELSE [n |-> IF negative THEN 0 - DecimalValue(mag) ELSE DecimalValue(mag),
             err |-> NilError]

----------------------------------------------------------------------------
(* normalizeOrigin *)

\* const prefix = "file:"
prefix == <<"f", "i", "l", "e", ":">>

HasPrefix(s, p) == Len(s) >= Len(p) /\ SubSeq(s, 1, Len(p)) = p

\* a plausible slip: the separator is searched from the left
splitPathLine_FirstColon(pathWithLine) ==
    LET colon == Index(pathWithLine, ":")
    IN IF colon = 0 THEN [file |-> pathWithLine, line |-> 0]
       ELSE LET lineCandidate == SubSeq(pathWithLine, colon + 1, Len(pathWithLine))
                parsed == Atoi(lineCandidate)
            IN IF parsed.err = NilError
               THEN [file |-> SubSeq(pathWithLine, 1, colon - 1), line |-> parsed.n]
               ELSE [file |-> pathWithLine, line |-> 0]

\* the part of normalizeOrigin after the prefix is cut off: the path and
\* the line are separated at the last colon when what follows it parses
splitPathLine(pathWithLine) ==
    LET colon == LastIndex(pathWithLine, ":")
    IN IF colon = 0 THEN [file |-> pathWithLine, line |-> 0]
       ELSE LET lineCandidate == SubSeq(pathWithLine, colon + 1, Len(pathWithLine))
                parsed == Atoi(lineCandidate)
            IN IF parsed.err = NilError
               THEN [file |-> SubSeq(pathWithLine, 1, colon - 1), line |-> parsed.n]
               ELSE [file |-> pathWithLine, line |-> 0]

\* a plausible slip: an origin without the marker is split like a path
normalizeOrigin_NoPrefixCheck(o) ==
    IF o = <<>> THEN [file |-> <<>>, line |-> 0]
    ELSE IF ~HasPrefix(o, prefix) THEN splitPathLine(o)
    ELSE splitPathLine(SubSeq(o, Len(prefix) + 1, Len(o)))

normalizeOrigin(o) ==
    IF o = <<>> THEN [file |-> <<>>, line |-> 0]
    ELSE IF ~HasPrefix(o, prefix) THEN [file |-> o, line |-> 0]
    ELSE splitPathLine(SubSeq(o, Len(prefix) + 1, Len(o)))

----------------------------------------------------------------------------
(* Specification of normalizeOrigin alone: an origin is drawn, then         *)
(* normalized.  An origin is a marker (or none, or a near miss), a short    *)
(* path over an alphabet that holds the colon and a digit, and a tail.      *)

\* longest path part of a drawn origin
MaxPathLen == 3

PathAlphabet == {"/", ":", "C", "7"}

OriginMarkers == {<<>>, prefix, <<"f", "i", "l">>}

TwentyNines == [i \in 1..20 |-> "9"]

LineTails ==
    { <<>>,
      <<":">>,
      <<":", "1", "2">>,
      <<":", "0", "0", "7">>,
      <<":", "-", "5">>,
      <<":", "+", "5">>,
      <<":", "1", "x">>,
      <<":">> \o MinIntMagnitudeDigits,
      <<":">> \o TwentyNines }

OriginInputs ==
    { m \o p \o t : m \in OriginMarkers,
                    p \in StringsUpTo(PathAlphabet, MaxPathLen),
                    t \in LineTails }

InitOrigin ==
    /\ pc = "origin"
    /\ origin \in OriginInputs
    /\ file = <<>>
    /\ line = 0
    /\ raw = <<>> /\ entries = <<>> /\ err = NilError /\ values = <<>>
    /\ keyValueRaw = <<>> /\ key = <<>> /\ value = <<>>
    /\ NoService

NormalizeOrigin ==
    /\ pc = "origin"
    /\ LET r == normalizeOrigin(origin)
       IN /\ file' = r.file
          /\ line' = r.line
    /\ pc' = "normalized"
    /\ UNCHANGED <<origin, configVars, splitVars, serviceVars>>

NextOrigin == NormalizeOrigin

SpecOrigin == InitOrigin /\ [][NextOrigin]_vars

\* what the claims say of an origin, stated on the text itself
StartsWithMarker(o) == Len(o) >= 5 /\ SubSeq(o, 1, 5) = <<"f", "i", "l", "e", ":">>

Remainder(o) == SubSeq(o, 6, Len(o))

Colons(s) == {i \in 1..Len(s) : s[i] = ":"}

LastColon(s) == CHOOSE i \in Colons(s) : \A j \in Colons(s) : j <= i

AfterLastColon(s) == SubSeq(s, LastColon(s) + 1, Len(s))

BeforeLastColon(s) == SubSeq(s, 1, LastColon(s) - 1)

IsDigitString(s) ==
    /\ s # <<>>
    /\ \A i \in 1..Len(s) : s[i] \in {"0", "1", "2", "3", "4", "5", "6", "7", "8", "9"}

\* C8: an origin that does not start with the marker file: comes back
\* verbatim as the label, with line 0; the empty origin gives ("", 0).
C8_NonFileOriginVerbatim ==
    (pc = "normalized" /\ ~StartsWithMarker(origin)) =>
        (file = origin /\ line = 0)

\* C8 witness: a normalized origin without the marker that ends in a colon
\* and a number, which a path would have lost
C8_Witness ==
    /\ pc = "normalized"
    /\ ~StartsWithMarker(origin)
    /\ Colons(origin) # {}
    /\ AfterLastColon(origin) = <<"1", "2">>
    /\ file = origin

\* the digit string D denotes a number an int holds (at most 1<<63 - 1)
FitsInt(D) == InIntRange(StripLeadingZeros(D), MaxIntDigits)

\* C9 as stated: every origin file: + P + : + D, D a non-empty string of
\* decimal digits, normalizes to the path P and the line D denotes.
C9_AsStated ==
    (/\ pc = "normalized"
     /\ StartsWithMarker(origin)
     /\ Colons(Remainder(origin)) # {}
     /\ IsDigitString(AfterLastColon(Remainder(origin)))) =>
        (/\ file = BeforeLastColon(Remainder(origin))
         /\ line = DecimalValue(AfterLastColon(Remainder(origin))))

\* C9 amended: every origin file: + P + : + D, D a non-empty string of
\* decimal digits that denotes a number an int can hold, normalizes to the
\* path P (everything before the last colon of the remainder) and the line
\* D denotes.
C9_DigitSuffixIsLine ==
    (/\ pc = "normalized"
     /\ StartsWithMarker(origin)
     /\ Colons(Remainder(origin)) # {}
     /\ IsDigitString(AfterLastColon(Remainder(origin)))
     /\ FitsInt(AfterLastColon(Remainder(origin)))) =>
        (/\ file = BeforeLastColon(Remainder(origin))
         /\ line = DecimalValue(AfterLastColon(Remainder(origin))))

\* C9 witness: a normalized origin whose path itself holds a colon, split
\* at the last colon into that path and line 12
C9_Witness ==
    /\ pc = "normalized"
    /\ StartsWithMarker(origin)
    /\ Colons(Remainder(origin)) # {}
    /\ AfterLastColon(Remainder(origin)) = <<"1", "2">>
    /\ Colons(BeforeLastColon(Remainder(origin))) # {}
    /\ file = BeforeLastColon(Remainder(origin))
    /\ line = 12

\* C10 as stated: an origin with the marker whose remainder has no colon,
\* or whose text after the last colon is not a line number (not a non-empty
\* string of decimal digits), normalizes to the whole remainder, line 0.
C10_AsStated ==
    (/\ pc = "normalized"
     /\ StartsWithMarker(origin)
     /\ \/ Colons(Remainder(origin)) = {}
        \/ ~IsDigitString(AfterLastColon(Remainder(origin)))) =>
        (file = Remainder(origin) /\ line = 0)

\* C11 as stated: the line normalizeOrigin returns is never negative; a
\* signed suffix such as -5 or +5 is not taken for a line, so the origin
\* keeps it in the path and the line is 0.
C11_AsStated ==
    pc = "normalized" =>
        /\ line >= 0
        /\ (/\ StartsWithMarker(origin)
            /\ Colons(Remainder(origin)) # {}
            /\ AfterLastColon(Remainder(origin)) # <<>>
            /\ AfterLastColon(Remainder(origin))[1] \in {"+", "-"}) =>
               (file = Remainder(origin) /\ line = 0)

----------------------------------------------------------------------------
(* parseGitConfigOutput *)

UpperCase ==
    <<"A", "B", "C", "D", "E", "F", "G", "H", "I", "J", "K", "L", "M",
      "N", "O", "P", "Q", "R", "S", "T", "U", "V", "W", "X", "Y", "Z">>

LowerCase ==
    <<"a", "b", "c", "d", "e", "f", "g", "h", "i", "j", "k", "l", "m",
      "n", "o", "p", "q", "r", "s", "t", "u", "v", "w", "x", "y", "z">>

\* strings.ToLower on the characters of the model: A..Z go to a..z
ToLower(s) ==
    [i \in 1..Len(s) |->
        IF \E u \in 1..Len(UpperCase) : UpperCase[u] = s[i]
        THEN LowerCase[CHOOSE u \in 1..Len(UpperCase) : UpperCase[u] = s[i]]
        ELSE s[i]]

\* bytes.Split(s, sep) for a one-byte separator: the empty input is one
\* empty chunk, n separators make n+1 chunks
RECURSIVE Split(_, _)
Split(s, sep) ==
    LET i == Index(s, sep)
    IN IF i = 0 THEN <<s>>
       ELSE <<SubSeq(s, 1, i - 1)>> \o Split(SubSeq(s, i + 1, Len(s)), sep)

\* a plausible slip: the sequence number counts the triplets read, so a
\* skipped or dropped triplet uses one up
RECURSIVE parseLoop_OrderPerTriplet(_, _, _, _)
parseLoop_OrderPerTriplet(chunks, i, order, acc) ==
    IF ~(i + 2 < Len(chunks)) THEN acc
    ELSE LET scopeRaw == chunks[i + 1]
             originRaw == chunks[i + 2]
             kvRaw == chunks[i + 3]
             kv == splitKeyValue(kvRaw)
             o == normalizeOrigin(originRaw)
         IN IF scopeRaw = <<>> /\ originRaw = <<>> /\ Len(kvRaw) = 0
            THEN parseLoop_OrderPerTriplet(chunks, i + 3, order + 1, acc)
            ELSE IF kv.key = <<>>
            THEN parseLoop_OrderPerTriplet(chunks, i + 3, order + 1, acc)
            ELSE parseLoop_OrderPerTriplet(chunks, i + 3, order + 1,
                     Append(acc, [key |-> kv.key, value |-> kv.value,
                                  scope |-> ToLower(scopeRaw),
                                  file |-> o.file, line |-> o.line,
                                  order |-> order]))

\* a plausible slip: the loop stops one field early (i+3 < len(chunks)), so
\* a last triplet that nothing follows is lost
RECURSIVE parseLoop_StopsEarly(_, _, _, _)
parseLoop_StopsEarly(chunks, i, order, acc) ==
    IF ~(i + 3 < Len(chunks)) THEN acc
    ELSE LET scopeRaw == chunks[i + 1]
             originRaw == chunks[i + 2]
             kvRaw == chunks[i + 3]
             kv == splitKeyValue(kvRaw)
             o == normalizeOrigin(originRaw)
         IN IF scopeRaw = <<>> /\ originRaw = <<>> /\ Len(kvRaw) = 0
            THEN parseLoop_StopsEarly(chunks, i + 3, order, acc)
            ELSE IF kv.key = <<>>
            THEN parseLoop_StopsEarly(chunks, i + 3, order, acc)
            ELSE parseLoop_StopsEarly(chunks, i + 3, order + 1,
                     Append(acc, [key |-> kv.key, value |-> kv.value,
                                  scope |-> ToLower(scopeRaw),
                                  file |-> o.file, line |-> o.line,
                                  order |-> order]))

\* a plausible slip: only the all-empty padding triplet is skipped, a
\* triplet with an empty key is kept
RECURSIVE parseLoop_KeepsEmptyKey(_, _, _, _)
parseLoop_KeepsEmptyKey(chunks, i, order, acc) ==
    IF ~(i + 2 < Len(chunks)) THEN acc
    ELSE LET scopeRaw == chunks[i + 1]
             originRaw == chunks[i + 2]
             kvRaw == chunks[i + 3]
             kv == splitKeyValue(kvRaw)
             o == normalizeOrigin(originRaw)
         IN IF scopeRaw = <<>> /\ originRaw = <<>> /\ Len(kvRaw) = 0
            THEN parseLoop_KeepsEmptyKey(chunks, i + 3, order, acc)
            ELSE parseLoop_KeepsEmptyKey(chunks, i + 3, order + 1,
                     Append(acc, [key |-> kv.key, value |-> kv.value,
                                  scope |-> ToLower(scopeRaw),
                                  file |-> o.file, line |-> o.line,
                                  order |-> order]))

\* the for loop of parseGitConfigOutput; i and order are the loop's own
\* (0-based) variables, acc is the slice entries
RECURSIVE parseLoop(_, _, _, _)
parseLoop(chunks, i, order, acc) ==
    IF ~(i + 2 < Len(chunks)) THEN acc
    ELSE LET scopeRaw == chunks[i + 1]
             originRaw == chunks[i + 2]
             kvRaw == chunks[i + 3]
             kv == splitKeyValue(kvRaw)
             o == normalizeOrigin(originRaw)
         IN IF scopeRaw = <<>> /\ originRaw = <<>> /\ Len(kvRaw) = 0
            THEN parseLoop(chunks, i + 3, order, acc)
            ELSE IF kv.key = <<>>
            THEN parseLoop(chunks, i + 3, order, acc)
            ELSE parseLoop(chunks, i + 3, order + 1,
                     Append(acc, [key |-> kv.key, value |-> kv.value,
                                  scope |-> ToLower(scopeRaw),
                                  file |-> o.file, line |-> o.line,
                                  order |-> order]))

parseGitConfigOutput(bytes) ==
    IF Len(bytes) = 0 THEN [entries |-> <<>>, err |-> NilError]
    ELSE [entries |-> parseLoop(Split(bytes, NUL), 0, 0, <<>>), err |-> NilError]

----------------------------------------------------------------------------
(* buildConfigValues *)

\* a Go slice that may be nil: len is 0 for nil and for the empty slice
NilSlice == [isNil |-> TRUE, elems |-> <<>>]

MakeSlice(s) == [isNil |-> FALSE, elems |-> s]

\* sort.SliceStable(items, less by order): insertion from the left keeps
\* the input order among equal elements
RECURSIVE InsertByOrder(_, _)
InsertByOrder(sorted, e) ==
    IF sorted = <<>> THEN <<e>>
    ELSE IF sorted[Len(sorted)].order <= e.order THEN Append(sorted, e)
    ELSE Append(InsertByOrder(SubSeq(sorted, 1, Len(sorted) - 1), e),
                sorted[Len(sorted)])

\* a plausible slip: the records of a key are taken in input order
SortSliceStable_InputOrder(items) == items

RECURSIVE SortSliceStable(_)
SortSliceStable(items) ==
    IF items = <<>> THEN <<>>
    ELSE InsertByOrder(SortSliceStable(SubSeq(items, 1, Len(items) - 1)),
                       items[Len(items)])

ConfigSourceOf(e) == [Scope |-> e.scope, File |-> e.file, Line |-> e.line]

ConfigOverrideOf(e) ==
    [Value |-> e.value, Source |-> ConfigSourceOf(e), Timestamp |-> <<>>]

\* the overrides loop: items[len-2] down to items[0]
OverridesOf(items) ==
    [j \in 1..(Len(items) - 1) |-> ConfigOverrideOf(items[Len(items) - j])]

\* a plausible slip: the first record of the key wins and the later ones
\* are listed as its overrides
ConfigValueOf_FirstWins(k, items) ==
    [Key |-> k,
     Value |-> items[1].value,
     Source |-> ConfigSourceOf(items[1]),
     LastModified |-> <<>>,
     Overrides |-> IF Len(items) > 1
                   THEN MakeSlice([j \in 1..(Len(items) - 1) |->
                                      ConfigOverrideOf(items[j + 1])])
                   ELSE NilSlice]

\* a plausible slip: the overrides are walked upwards, oldest first
ConfigValueOf_OverridesAscending(k, items) ==
    [Key |-> k,
     Value |-> items[Len(items)].value,
     Source |-> ConfigSourceOf(items[Len(items)]),
     LastModified |-> <<>>,
     Overrides |-> IF Len(items) > 1
                   THEN MakeSlice([j \in 1..(Len(items) - 1) |->
                                      ConfigOverrideOf(items[j])])
                   ELSE NilSlice]

\* the body of the loop over byKey: the ConfigValue of one key from its
\* sorted records
ConfigValueOf(k, items) ==
    [Key |-> k,
     Value |-> items[Len(items)].value,
     Source |-> ConfigSourceOf(items[Len(items)]),
     LastModified |-> <<>>,
     Overrides |-> IF Len(items) > 1 THEN MakeSlice(OverridesOf(items))
                   ELSE NilSlice]

\* byKey[k]: the records of key k, in input order
ByKey(es, k) == SelectSeq(es, LAMBDA e : e.key = k)

\* a plausible slip: the entry is stored inside the if that builds the
\* overrides, so a key with a single record is left out of the result
buildConfigValues_OnlyOverridden(es) ==
    IF Len(es) = 0 THEN <<>>
    ELSE [k \in {es[i].key : i \in 1..Len(es)} \cap
                {es[i].key : i \in {j \in 1..Len(es) : Len(ByKey(es, es[j].key)) > 1}} |->
             ConfigValueOf(k, SortSliceStable(ByKey(es, k)))]

buildConfigValues(es) ==
    IF Len(es) = 0 THEN <<>>
    ELSE [k \in {es[i].key : i \in 1..Len(es)} |->
             ConfigValueOf(k, SortSliceStable(ByKey(es, k)))]

----------------------------------------------------------------------------
(* Specification of the configuration reader: a raw listing is drawn, then  *)
(* tokenized, then resolved, as readGitConfig does with the tool's output.  *)
(* A listing is fields joined by NUL; the i-th field is drawn from the      *)
(* scopes, the origins or the key/value units by its place in a triplet.    *)

\* most fields of a drawn listing (three triplets and no more)
MaxFields == 9

ScopeFields == {<<>>, <<"S">>, <<"l">>}

OriginFields == {<<>>, <<"f", "i", "l", "e", ":", "p", ":", "7">>}

KeyValueFields ==
    { <<>>,
      <<"a">>,
      <<"a", LF, "x">>,
      <<"a", LF, "y">>,
      <<"b", LF, "x">>,
      <<LF, "x">> }

FieldChoices(n) ==
    IF n % 3 = 1 THEN ScopeFields
    ELSE IF n % 3 = 2 THEN OriginFields
    ELSE KeyValueFields

RECURSIVE FieldLists(_)
FieldLists(n) ==
    IF n = 0 THEN {<<>>}
    ELSE LET shorter == FieldLists(n - 1)
         IN shorter \cup {Append(fs, f) : fs \in {s \in shorter : Len(s) = n - 1},
                                          f \in FieldChoices(n)}

RECURSIVE Join(_, _)
Join(fs, sep) ==
    IF fs = <<>> THEN <<>>
    ELSE IF Len(fs) = 1 THEN fs[1]
    ELSE fs[1] \o <<sep>> \o Join(Tail(fs), sep)

RawInputs == {Join(fs, NUL) : fs \in FieldLists(MaxFields)}

InitConfig ==
    /\ pc = "raw"
    /\ raw \in RawInputs
    /\ entries = <<>>
    /\ err = NilError
    /\ values = <<>>
    /\ keyValueRaw = <<>> /\ key = <<>> /\ value = <<>>
    /\ origin = <<>> /\ file = <<>> /\ line = 0
    /\ NoService

\* entries, err := parseGitConfigOutput(output)
ParseGitConfigOutput ==
    /\ pc = "raw"
    /\ LET r == parseGitConfigOutput(raw)
       IN /\ entries' = r.entries
          /\ err' = r.err
    /\ pc' = "parsed"
    /\ UNCHANGED <<raw, values, splitVars, originVars, serviceVars>>

\* if err != nil { return nil, err }; return buildConfigValues(entries), nil
BuildConfigValues ==
    /\ pc = "parsed"
    /\ err = NilError
    /\ values' = buildConfigValues(entries)
    /\ pc' = "built"
    /\ UNCHANGED <<raw, entries, err, splitVars, originVars, serviceVars>>

NextConfig == ParseGitConfigOutput \/ BuildConfigValues

SpecConfig == InitConfig /\ [][NextConfig]_vars

\* what the claims say of a listing, stated on the listing itself; cs is
\* the listing's fields
Chunks == Split(raw, NUL)

Triplets(cs) == 1..(Len(cs) \div 3)

ScopeOfTriplet(cs, t) == cs[3 * t - 2]

OriginOfTriplet(cs, t) == cs[3 * t - 1]

UnitOfTriplet(cs, t) == cs[3 * t]

\* the key of a unit is non-empty: the unit is not empty and does not
\* start with a newline
HasKey(cs, t) == UnitOfTriplet(cs, t) # <<>> /\ UnitOfTriplet(cs, t)[1] # LF

IsPadding(cs, t) ==
    ScopeOfTriplet(cs, t) = <<>> /\ OriginOfTriplet(cs, t) = <<>> /\ UnitOfTriplet(cs, t) = <<>>

Retained(cs) == {t \in Triplets(cs) : HasKey(cs, t)}

\* the j-th element of a set of triplets, in stream order
TripletAt(R, j) == CHOOSE t \in R : Cardinality({u \in R : u < t}) = j - 1

Keys == {entries[i].key : i \in 1..Len(entries)}

RecordsOf(k) == {i \in 1..Len(entries) : entries[i].key = k}

\* the record of key k that has exactly r records of k above it in sequence
RankedRecord(k, r) ==
    CHOOSE i \in RecordsOf(k) :
        Cardinality({j \in RecordsOf(k) : entries[j].order > entries[i].order}) = r

SourceOfRecord(i) ==
    [Scope |-> entries[i].scope, File |-> entries[i].file, Line |-> entries[i].line]

\* C1: for every key of the retained records, the resolved entry carries
\* the value and the source (scope, file, line) of that key's record with
\* the maximum sequence number, whatever the scopes of the records are.
C1_EffectiveIsMaxSequence ==
    pc = "built" =>
        \A k \in Keys :
            /\ k \in DOMAIN values
            /\ values[k].Value = entries[RankedRecord(k, 0)].value
            /\ values[k].Source = SourceOfRecord(RankedRecord(k, 0))

\* C1 witness: a resolved key with three records whose last record differs
\* from the first in value and in scope, and is the effective one
C1_Witness ==
    /\ pc = "built"
    /\ \E k \in Keys :
          /\ Cardinality(RecordsOf(k)) = 3
          /\ entries[RankedRecord(k, 0)].value # entries[RankedRecord(k, 2)].value
          /\ entries[RankedRecord(k, 0)].scope # entries[RankedRecord(k, 2)].scope
          /\ values[k].Value = entries[RankedRecord(k, 0)].value

\* C2: for every key with n retained records, the resolved entry's
\* overrides are n-1 in number and are the key's other records in strictly
\* descending sequence: the j-th override is the record with j records of
\* the key above it.
C2_OverridesDescending ==
    pc = "built" =>
        \A k \in Keys :
            LET n == Cardinality(RecordsOf(k))
                ov == values[k].Overrides.elems
            IN /\ Len(ov) = n - 1
               /\ \A j \in 1..(n - 1) :
                     /\ ov[j].Value = entries[RankedRecord(k, j)].value
                     /\ ov[j].Source = SourceOfRecord(RankedRecord(k, j))

\* C2 witness: a resolved key with three records of pairwise different
\* values, so two overrides whose order shows
C2_Witness ==
    /\ pc = "built"
    /\ \E k \in Keys :
          /\ Cardinality(RecordsOf(k)) = 3
          /\ Cardinality({entries[i].value : i \in RecordsOf(k)}) = 3
          /\ Len(values[k].Overrides.elems) = 2

\* C3: the resolved mapping has as many entries as the retained records
\* have distinct keys, and each entry's Key is the key it is stored under.
C3_OneEntryPerKey ==
    pc = "built" =>
        /\ Cardinality(DOMAIN values) = Cardinality(Keys)
        /\ \A k \in DOMAIN values : values[k].Key = k

\* C3 witness: three retained records over two distinct keys, resolved
C3_Witness ==
    /\ pc = "built"
    /\ Len(entries) = 3
    /\ Cardinality(Keys) = 2
    /\ Cardinality(DOMAIN values) = 2

\* C4: the returned records are numbered 0, 1, ..., k-1 in output order;
\* a skipped padding triplet or a dropped empty-key triplet uses up no
\* number.
C4_SequenceHasNoGaps ==
    pc \in {"parsed", "built"} =>
        \A i \in 1..Len(entries) : entries[i].order = i - 1

\* C4 witness: a tokenized listing of three triplets, a padding one and an
\* empty-key one first, then a retained one, which is numbered 0
C4_Witness ==
    LET cs == Chunks
    IN /\ pc = "parsed"
       /\ Len(cs) \div 3 = 3
       /\ IsPadding(cs, 1)
       /\ ScopeOfTriplet(cs, 2) # <<>> /\ ~HasKey(cs, 2)
       /\ HasKey(cs, 3)
       /\ Len(entries) = 1
       /\ entries[1].order = 0

\* the listing cut back to its complete leading triplets
LeadingTriplets(cs) == Join(SubSeq(cs, 1, 3 * (Len(cs) \div 3)), NUL)

\* C5: tokenizing never returns an error; the empty listing gives no
\* records; a listing whose fields are not a multiple of three gives the
\* records of its complete leading triplets, the dangling fields ignored.
C5_NoErrorDanglingIgnored ==
    pc \in {"parsed", "built"} =>
        LET cs == Chunks
        IN /\ err = NilError
           /\ raw = <<>> => entries = <<>>
           /\ Len(cs) % 3 # 0 =>
                  entries = parseGitConfigOutput(LeadingTriplets(cs)).entries

\* C5 witness: a tokenized listing of one complete triplet followed by two
\* non-empty dangling fields, which gives that triplet's record alone
C5_Witness ==
    LET cs == Chunks
    IN /\ pc = "parsed"
       /\ Len(cs) = 5
       /\ cs[4] # <<>> /\ cs[5] # <<>>
       /\ err = NilError
       /\ Len(entries) = 1

\* C6: a complete triplet is in the output exactly when its key is
\* non-empty: the records are the triplets with a non-empty key, in stream
\* order, each with its triplet's scope, origin, key and value; so an
\* all-empty triplet and an empty-key triplet are absent and every record
\* has a non-empty key.
C6_RetainedIffKeyNonEmpty ==
    pc \in {"parsed", "built"} =>
        LET cs == Chunks
            R == Retained(cs)
        IN /\ Len(entries) = Cardinality(R)
           /\ \A j \in 1..Len(entries) :
                 LET t == TripletAt(R, j)
                     e == entries[j]
                 IN /\ e.key # <<>>
                    /\ \A i \in 1..Len(e.key) : e.key[i] # LF
                    /\ \/ UnitOfTriplet(cs, t) = e.key /\ e.value = <<>>
                       \/ UnitOfTriplet(cs, t) = e.key \o <<LF>> \o e.value
                    /\ e.scope = ToLower(ScopeOfTriplet(cs, t))
                    /\ [file |-> e.file, line |-> e.line] =
                           normalizeOrigin(OriginOfTriplet(cs, t))

\* C6 witness: a tokenized listing with an all-empty triplet, a triplet
\* with a scope but an empty key, and one triplet with a key, the only
\* record
C6_Witness ==
    LET cs == Chunks
    IN /\ pc = "parsed"
       /\ Len(cs) \div 3 = 3
       /\ \E t \in Triplets(cs) : IsPadding(cs, t)
       /\ \E t \in Triplets(cs) : ScopeOfTriplet(cs, t) # <<>> /\ ~HasKey(cs, t)
       /\ Cardinality(Retained(cs)) = 1
       /\ Len(entries) = 1

----------------------------------------------------------------------------
(* Path helpers of buildRepository: strings.TrimSpace and path/filepath on  *)
(* a slash-separated file system                                            *)

WhiteSpace == {" ", "\t", "\n", "\r"}

RECURSIVE TrimLeft(_)
TrimLeft(s) ==
    IF s # <<>> /\ s[1] \in WhiteSpace THEN TrimLeft(Tail(s)) ELSE s

RECURSIVE TrimRight(_)
TrimRight(s) ==
    IF s # <<>> /\ s[Len(s)] \in WhiteSpace
    THEN TrimRight(SubSeq(s, 1, Len(s) - 1))
    ELSE s

\* strings.TrimSpace
TrimSpace(s) == TrimRight(TrimLeft(s))

\* filepath.IsAbs
IsAbs(p) == p # <<>> /\ p[1] = "/"

Dot == <<".">>

DotDot == <<".", ".">>

\* one path element taken by filepath.Clean: empty elements and "." are
\* dropped, ".." removes the element before it (at the root it is dropped,
\* in a relative path with nothing to remove it is kept)
CleanElement(out, elem, rooted) ==
    IF elem = <<>> \/ elem = Dot THEN out
    ELSE IF elem = DotDot
    THEN IF out # <<>> /\ out[Len(out)] # DotDot
         THEN SubSeq(out, 1, Len(out) - 1)
         ELSE IF rooted THEN out ELSE Append(out, elem)
    ELSE Append(out, elem)

RECURSIVE CleanElements(_, _, _)
CleanElements(out, elems, rooted) ==
    IF elems = <<>> THEN out
    ELSE CleanElements(CleanElement(out, elems[1], rooted), Tail(elems), rooted)

\* filepath.Clean
Clean(p) ==
    IF p = <<>> THEN Dot
    ELSE LET rooted == p[1] = "/"
             out == CleanElements(<<>>, Split(p, "/"), rooted)
         IN IF rooted THEN <<"/">> \o Join(out, "/")
            ELSE IF out = <<>> THEN Dot
            ELSE Join(out, "/")

\* filepath.Join(a, b): the non-empty elements joined by a slash, cleaned
FilepathJoin(a, b) ==
    IF a = <<>> /\ b = <<>> THEN <<>>
    ELSE IF a = <<>> THEN Clean(b)
    ELSE IF b = <<>> THEN Clean(a)
    ELSE Clean(a \o <<"/">> \o b)

RECURSIVE TrimTrailingSlashes(_)
TrimTrailingSlashes(p) ==
    IF p # <<>> /\ p[Len(p)] = "/"
    THEN TrimTrailingSlashes(SubSeq(p, 1, Len(p) - 1))
    ELSE p

\* filepath.Base: the last element; "." for the empty path, "/" for a
\* path of slashes only
Base(p) ==
    IF p = <<>> THEN Dot
    ELSE LET t == TrimTrailingSlashes(p)
             i == LastIndex(t, "/")
         IN IF t = <<>> THEN <<"/">>
            ELSE SubSeq(t, i + 1, Len(t))

\* a plausible slip: the two directories are compared as written, not
\* cleaned
samePath_AsWritten(a, b) ==
    IF a = <<>> \/ b = <<>> THEN FALSE
    ELSE a = b

samePath(a, b) ==
    IF a = <<>> \/ b = <<>> THEN FALSE
    ELSE Clean(a) = Clean(b)

\* uuid.NewSHA1(uuid.Nil, input).String(): a name-based identifier, a
\* function of the input bytes alone, taken to be free of collisions
ensureID(input) == <<"uuid5">> \o input


----------------------------------------------------------------------------
(* The git tool, as the Service sees it *)

\* what one invocation of git answers when it runs to its end: a non-zero
\* exit, or exit 0 with the bytes on its standard output
Fails == [ok |-> FALSE, out |-> <<>>]

Outputs(s) == [ok |-> TRUE, out |-> s]

ShowTopLevel == "--show-toplevel"
GitDir == "--git-dir"
GitCommonDir == "--git-common-dir"
IsBareRepository == "--is-bare-repository"
ShowSuperproject == "--show-superproject-working-tree"
ConfigList == "config --list"
ConfigListGlobal == "config --list --global"

\* the five rev-parse queries of buildRepository, in the order of its text
TopologyQueries ==
    <<ShowTopLevel, GitDir, GitCommonDir, IsBareRepository, ShowSuperproject>>

ContextCanceled == "context canceled"
SignalKilled == "signal: killed"
ExitStatus == "exit status 128"

\* cmd.Output() of a command made by exec.CommandContext(ctx, ...): when ctx
\* is already done no process is started and ctx.Err() comes back; otherwise
\* the process runs to its end, or ctx is cancelled while it runs, the
\* process is killed and Wait reports the kill (or ctx.Err() when the
\* process had exited 0 by then)
Output(cancelled, answer) ==
    IF cancelled
    THEN {[out |-> <<>>, err |-> ContextCanceled, cancelled |-> TRUE]}
    ELSE {IF answer.ok
          THEN [out |-> answer.out, err |-> NilError, cancelled |-> FALSE]
          ELSE [out |-> <<>>, err |-> ExitStatus, cancelled |-> FALSE]}
         \cup {[out |-> <<>>, err |-> e, cancelled |-> TRUE] :
                  e \in {SignalKilled, ContextCanceled}}

----------------------------------------------------------------------------
(* Repository, ConfigMatrix and the locals of one Service call *)

ZeroRepository ==
    [ID |-> <<>>, Name |-> <<>>, Path |-> <<>>, Root |-> <<>>, Type |-> "",
     GitDir |-> <<>>, IsBare |-> FALSE, IsWorktree |-> FALSE,
     IsSubmodule |-> FALSE, LastScanTime |-> <<>>, Status |-> ""]

ZeroConfigMatrix == [RepositoryID |-> <<>>, Entries |-> <<>>, RetrievedAt |-> <<>>]

\* t.UTC().Format(time.RFC3339Nano): one text per instant
timestamp(t) == <<t>>

EmptyMap == <<>>

\* the goroutine that calls the Service
Callers == {"c1"}

\* a caller that is in no call
Idle ==
    [op |-> "idle", pc |-> "idle", path |-> <<>>, cancelled |-> FALSE,
     log |-> <<>>, topLevel |-> <<>>, gitDir |-> <<>>, gitCommonDir |-> <<>>,
     isBare |-> FALSE, scanRoots |-> <<>>, scanned |-> 0,
     discovered |-> EmptyMap,
     repositoryID |-> <<>>, repo |-> ZeroRepository, results |-> NilSlice,
     matrix |-> ZeroConfigMatrix, values |-> <<>>, request |-> <<>>,
     reply |-> <<>>, err |-> NilError]

\* a call of op on path under a context that is or is not yet cancelled
Entered(op, at, path, cancelled) ==
    [Idle EXCEPT !.op = op, !.pc = at, !.path = path, !.cancelled = cancelled]

----------------------------------------------------------------------------
(* buildRepository *)

Placeholder == <<"r", "e", "p", "o", "s", "i", "t", "o", "r", "y">>

RepositoryName(topLevel) ==
    LET name == Base(topLevel)
    IN IF name = <<>> THEN Placeholder ELSE name

RepositoryTypeOf(isBare) ==
    IF isBare THEN "RepositoryTypeBare" ELSE "RepositoryTypeStandard"

\* a plausible slip: the id is made from the path the caller passed
RepositoryOf_IDFromCandidate(f, isSubmodule, t) ==
    [ID |-> ensureID(f.path),
     Name |-> RepositoryName(f.topLevel),
     Path |-> f.topLevel,
     Root |-> f.path,
     Type |-> RepositoryTypeOf(f.isBare),
     GitDir |-> f.gitDir,
     IsBare |-> f.isBare,
     IsWorktree |-> ~f.isBare /\ ~samePath(f.gitDir, f.gitCommonDir),
     IsSubmodule |-> isSubmodule,
     LastScanTime |-> timestamp(t),
     Status |-> "RepoStatusIdle"]

\* the Repository literal at the end of buildRepository
RepositoryOf(f, isSubmodule, t) ==
    [ID |-> ensureID(f.topLevel),
     Name |-> RepositoryName(f.topLevel),
     Path |-> f.topLevel,
     Root |-> f.path,
     Type |-> RepositoryTypeOf(f.isBare),
     GitDir |-> f.gitDir,
     IsBare |-> f.isBare,
     IsWorktree |-> ~f.isBare /\ ~samePath(f.gitDir, f.gitCommonDir),
     IsSubmodule |-> isSubmodule,
     LastScanTime |-> timestamp(t),
     Status |-> "RepoStatusIdle"]

\* where buildRepository's caller goes on with (repo, e); for Scan the
\* locals of buildRepository are gone by then, and so is the failed Scan's
\* map (the number of roots it had resolved is kept for the record)
AfterBuild(f, repo, e) ==
    IF f.op = "Scan"
    THEN IF e # NilError
         THEN [Idle EXCEPT !.op = "Scan", !.pc = "done",
                           !.cancelled = f.cancelled, !.log = f.log,
                           !.scanned = f.scanned,
                           !.results = NilSlice, !.err = e]
         ELSE [Idle EXCEPT !.op = "Scan", !.pc = "scan",
                           !.cancelled = f.cancelled,
                           !.discovered = (repo.ID :> repo) @@ f.discovered,
                           !.scanRoots = f.scanRoots,
                           !.scanned = f.scanned + 1]
    ELSE IF e # NilError
         THEN [f EXCEPT !.pc = "done", !.repo = ZeroRepository, !.err = e]
         ELSE [f EXCEPT !.pc = "done", !.repo = repo, !.err = NilError]

\* one external invocation, as the log of a call keeps it
Invocation(query, e) == [query |-> query, err |-> e]

\* a plausible slip: a query that failed is issued a second time
GitQuery_Retry(f, query) ==
    UNION {IF o.err = NilError
           THEN {[frame |-> [f EXCEPT !.log = Append(f.log, Invocation(query, o.err)),
                                      !.cancelled = o.cancelled],
                  out |-> o.out, err |-> o.err]}
           ELSE {[frame |-> [f EXCEPT !.log = f.log \o <<Invocation(query, o.err),
                                                         Invocation(query, p.err)>>,
                                      !.cancelled = p.cancelled],
                  out |-> p.out, err |-> p.err] :
                     p \in Output(o.cancelled, tool.revparse[f.path][query])} :
              o \in Output(f.cancelled, tool.revparse[f.path][query])}

\* gitQuery(ctx, path, "rev-parse", query), noted in the log of the call
GitQuery(f, query) ==
    {[frame |-> [f EXCEPT !.log = Append(f.log, Invocation(query, o.err)),
                          !.cancelled = o.cancelled],
      out |-> o.out, err |-> o.err] :
        o \in Output(f.cancelled, tool.revparse[f.path][query])}

\* a plausible slip: the directory is kept as the tool reported it
Absolute_AsReported(topLevel, dir) == dir

\* a relative directory is taken from the top level
Absolute(topLevel, dir) ==
    IF IsAbs(dir) THEN dir ELSE FilepathJoin(topLevel, dir)

\* a plausible slip: an empty top level is not looked for
queryTopLevel_EmptyAccepted(f) ==
    IF f.path = <<>>
    THEN {AfterBuild(f, ZeroRepository, "path cannot be empty")}
    ELSE {IF q.err # NilError
          THEN AfterBuild(q.frame, ZeroRepository, q.err)
          ELSE [q.frame EXCEPT !.topLevel = TrimSpace(q.out), !.pc = "gitdir"] :
             q \in GitQuery(f, ShowTopLevel)}

\* the steps of buildRepository, each from the locals before it to the
\* locals after it, one for every outcome of its query; a step that fails
\* hands the zero Repository and the error to the caller
queryTopLevel(f) ==
    IF f.path = <<>>
    THEN {AfterBuild(f, ZeroRepository, "path cannot be empty")}
    ELSE {LET topLevel == TrimSpace(q.out)
          IN IF q.err # NilError
             THEN AfterBuild(q.frame, ZeroRepository, q.err)
             ELSE IF topLevel = <<>>
             THEN AfterBuild(q.frame, ZeroRepository,
                             "git repository root is empty")
             ELSE [q.frame EXCEPT !.topLevel = topLevel, !.pc = "gitdir"] :
             q \in GitQuery(f, ShowTopLevel)}

\* a plausible slip: the error of the git-dir query is dropped and the
\* resolution goes on with what it has
queryGitDir_ErrorDropped(f) ==
    {[q.frame EXCEPT !.gitDir = Absolute(q.frame.topLevel, TrimSpace(q.out)),
                     !.pc = "commondir"] :
        q \in GitQuery(f, GitDir)}

queryGitDir(f) ==
    {IF q.err # NilError
     THEN AfterBuild(q.frame, ZeroRepository, q.err)
     ELSE [q.frame EXCEPT
              !.gitDir = Absolute(q.frame.topLevel, TrimSpace(q.out)),
              !.pc = "commondir"] :
        q \in GitQuery(f, GitDir)}

queryGitCommonDir(f) ==
    {IF q.err # NilError
     THEN AfterBuild(q.frame, ZeroRepository, q.err)
     ELSE [q.frame EXCEPT
              !.gitCommonDir = Absolute(q.frame.topLevel, TrimSpace(q.out)),
              !.pc = "isbare"] :
        q \in GitQuery(f, GitCommonDir)}

queryIsBare(f) ==
    {IF q.err # NilError
     THEN AfterBuild(q.frame, ZeroRepository, q.err)
     ELSE [q.frame EXCEPT
              !.isBare = (TrimSpace(q.out) = <<"t", "r", "u", "e">>),
              !.pc = "superproject"] :
        q \in GitQuery(f, IsBareRepository)}

querySuperproject(f) ==
    {IF q.err # NilError
     THEN AfterBuild(q.frame, ZeroRepository, q.err)
     ELSE AfterBuild(q.frame,
                     RepositoryOf(q.frame, TrimSpace(q.out) # <<>>, now),
                     NilError) :
        q \in GitQuery(f, ShowSuperproject)}

\* buildRepository(ctx, path): every way the call may end, the context being
\* cancelled before or during any of its queries or not at all; a call that
\* has failed at one step takes no further step
buildRepository(f) ==
    LET s1 == queryTopLevel(f)
        s2 == UNION {IF g.pc = "gitdir" THEN queryGitDir(g) ELSE {g} : g \in s1}
        s3 == UNION {IF g.pc = "commondir" THEN queryGitCommonDir(g) ELSE {g} :
                        g \in s2}
        s4 == UNION {IF g.pc = "isbare" THEN queryIsBare(g) ELSE {g} : g \in s3}
    IN UNION {IF g.pc = "superproject" THEN querySuperproject(g) ELSE {g} :
                 g \in s4}

\* a plausible slip: a repository that ResolveRepository resolved is
\* registered with the Service
BuildRepository_Registers(c) ==
    /\ call[c].pc = "build"
    /\ \E g \in buildRepository(call[c]) :
           /\ call' = [call EXCEPT ![c] = g]
           /\ repositories' =
                  IF g.op = "ResolveRepository" /\ g.err = NilError
                  THEN (g.repo.ID :> g.repo) @@ repositories
                  ELSE repositories
    /\ UNCHANGED <<readerVars, roots, includeRules, changeSets, tool, now>>

\* buildRepository touches nothing but its locals and the tool
BuildRepository(c) ==
    /\ call[c].pc = "build"
    /\ \E g \in buildRepository(call[c]) : call' = [call EXCEPT ![c] = g]
    /\ UNCHANGED <<readerVars, sharedVars, tool, now>>

\* Service.ResolveRepository up to its call of buildRepository
ResolveRepository(c) ==
    /\ call[c].pc = "resolve"
    /\ call' = [call EXCEPT ![c] =
           IF call[c].cancelled
           THEN [call[c] EXCEPT !.pc = "done", !.repo = ZeroRepository,
                                !.err = ContextCanceled]
           ELSE [call[c] EXCEPT !.pc = "build"]]
    /\ UNCHANGED <<readerVars, sharedVars, tool, now>>

\* the caller's context is cancelled while its call is under way
Cancel(c) ==
    /\ call[c].pc \notin {"idle", "done"}
    /\ ~call[c].cancelled
    /\ call' = [call EXCEPT ![c].cancelled = TRUE]
    /\ UNCHANGED <<readerVars, sharedVars, tool, now>>

----------------------------------------------------------------------------
(* readGitConfig and readGlobalConfig *)

\* where the reader's caller goes on with (values, e)
AfterRead(f, vs, e) ==
    IF f.op \in {"GetEffectiveConfig", "GetGlobalConfig"}
    THEN IF e # NilError
         THEN [f EXCEPT !.pc = "done", !.matrix = ZeroConfigMatrix, !.err = e]
         ELSE [f EXCEPT !.pc = "done", !.err = NilError,
                        !.matrix = [RepositoryID |-> f.repositoryID,
                                    Entries |-> vs,
                                    RetrievedAt |-> timestamp(now)]]
    ELSE IF e # NilError
         THEN [f EXCEPT !.pc = "done", !.values = <<>>, !.err = e]
         ELSE [f EXCEPT !.pc = "done", !.values = vs, !.err = NilError]

\* cmd.Output() of the listing command, then the parser and the builder
ReadOutput(f, query, answer) ==
    {LET g == [f EXCEPT !.log = Append(f.log, Invocation(query, o.err)),
                        !.cancelled = o.cancelled]
         parsed == parseGitConfigOutput(o.out)
     IN IF o.err # NilError THEN AfterRead(g, <<>>, o.err)
        ELSE IF parsed.err # NilError THEN AfterRead(g, <<>>, parsed.err)
        ELSE AfterRead(g, buildConfigValues(parsed.entries), NilError) :
        o \in Output(f.cancelled, answer)}

ReadGitConfig(c) ==
    /\ call[c].pc = "readGitConfig"
    /\ IF call[c].path = <<>>
       THEN call' = [call EXCEPT ![c] =
                AfterRead(call[c], <<>>, "repository path cannot be empty")]
       ELSE \E g \in ReadOutput(call[c], ConfigList, tool.config[call[c].path]) :
                call' = [call EXCEPT ![c] = g]
    /\ UNCHANGED <<readerVars, sharedVars, tool, now>>

ReadGlobalConfig(c) ==
    /\ call[c].pc = "readGlobalConfig"
    /\ \E g \in ReadOutput(call[c], ConfigListGlobal, tool.global) :
           call' = [call EXCEPT ![c] = g]
    /\ UNCHANGED <<readerVars, sharedVars, tool, now>>

----------------------------------------------------------------------------
(* One call of ResolveRepository, readGitConfig or readGlobalConfig against
   every answer the tool may give *)

CandidatePaths == {<<>>, <<" ">>, <<"/", "a">>}

TopLevelAnswers ==
    {Fails, Outputs(<<LF>>), Outputs(<<"/", LF>>), Outputs(<<"/", "a", LF>>)}

GitDirAnswers ==
    {Fails, Outputs(<<LF>>), Outputs(<<".", "g", LF>>),
     Outputs(<<"/", "a", "/", ".", "g", LF>>),
     Outputs(<<"/", "a", "/", ".", "g", "/", LF>>),
     Outputs(<<"/", "w", LF>>)}

GitCommonDirAnswers ==
    {Fails, Outputs(<<".", "g", LF>>),
     Outputs(<<"/", "a", "/", ".", "g", LF>>),
     Outputs(<<"/", "a", "/", "/", ".", "g", LF>>)}

IsBareAnswers ==
    {Fails, Outputs(<<"t", "r", "u", "e", LF>>),
     Outputs(<<"f", "a", "l", "s", "e", LF>>)}

SuperprojectAnswers == {Fails, Outputs(<<>>), Outputs(<<"/", "s", LF>>)}

TopologyAnswers ==
    {(ShowTopLevel :> t) @@ (GitDir :> g) @@ (GitCommonDir :> k)
        @@ (IsBareRepository :> b) @@ (ShowSuperproject :> s) :
        t \in TopLevelAnswers, g \in GitDirAnswers, k \in GitCommonDirAnswers,
        b \in IsBareAnswers, s \in SuperprojectAnswers}

NoTopology == [q \in {TopologyQueries[i] : i \in 1..5} |-> Fails]

OneEntryListing == <<"l", NUL, "f", NUL, "k", LF, "v", NUL>>

TwoEntryListing ==
    <<"g", NUL, "f", NUL, "k", LF, "v", NUL, "l", NUL, "f", NUL, "k", LF, "w", NUL>>

ConfigAnswers ==
    {Fails, Outputs(<<>>), Outputs(OneEntryListing), Outputs(TwoEntryListing)}

\* readGitConfig has one call site, GetEffectiveConfig, which passes the
\* Path of a stored Repository: a top level buildRepository has resolved
ResolvedPaths ==
    {TrimSpace(a.out) : a \in {b \in TopLevelAnswers : b.ok}} \ {<<>>}

NewService ==
    /\ roots = {}
    /\ repositories = EmptyMap
    /\ includeRules = EmptyMap
    /\ changeSets = EmptyMap

InitRepo ==
    /\ NoReader
    /\ NewService
    /\ now = 1
    /\ \/ \E a \in TopologyAnswers, p \in CandidatePaths, x \in BOOLEAN :
            /\ tool = [revparse |-> [q \in CandidatePaths |-> a],
                       config |-> [q \in CandidatePaths |-> Fails],
                       global |-> Fails]
            /\ call = [c \in Callers |->
                          Entered("ResolveRepository", "resolve", p, x)]
       \/ \E a \in ConfigAnswers, p \in ResolvedPaths, x \in BOOLEAN,
             op \in {"readGitConfig", "readGlobalConfig"} :
            /\ tool = [revparse |-> [q \in CandidatePaths |-> NoTopology],
                       config |-> [q \in ResolvedPaths |-> a],
                       global |-> a]
            /\ call = [c \in Callers |-> Entered(op, op, p, x)]

NextRepo ==
    \E c \in Callers :
        \/ ResolveRepository(c)
        \/ BuildRepository(c)
        \/ ReadGitConfig(c)
        \/ ReadGlobalConfig(c)
        \/ Cancel(c)

SpecRepo == InitRepo /\ [][NextRepo]_vars

\* the call of caller c has returned
Returned(c) == call[c].pc = "done"

\* the queries a call has issued, in the order of their issue
Queries(log) == [i \in 1..Len(log) |-> log[i].query]

\* the queries a call has issued are the first ones of the fixed order
IssuedInOrder(log) ==
    /\ Len(log) <= Len(TopologyQueries)
    /\ Queries(log) = SubSeq(TopologyQueries, 1, Len(log))

\* no query was issued after one that failed
StopsAtFirstFailure(log) ==
    \A i \in 1..(Len(log) - 1) : log[i].err = NilError

\* the answer the tool holds for the i-th query a call has issued
AnswerTo(f, i) == tool.revparse[f.path][f.log[i].query]

\* C12: a resolution in which a topology query failed returns an error and
\* the zero Repository; an error never comes with a Repository that has a
\* field set; a result without error means that all five queries were
\* issued and succeeded.
C12_AllOrNothing ==
    \A c \in DOMAIN call :
        (call[c].op = "ResolveRepository" /\ Returned(c)) =>
            LET f == call[c]
            IN /\ (\E i \in 1..Len(f.log) : ~AnswerTo(f, i).ok) =>
                      (f.err # NilError /\ f.repo = ZeroRepository)
               /\ f.err # NilError => f.repo = ZeroRepository
               /\ f.err = NilError =>
                      /\ Queries(f.log) = TopologyQueries
                      /\ \A i \in 1..5 : AnswerTo(f, i).ok
                      /\ f.repo # ZeroRepository

\* a resolution whose third query failed after two that succeeded
C12_Witness ==
    \E c \in DOMAIN call :
        /\ call[c].op = "ResolveRepository" /\ Returned(c)
        /\ Len(call[c].log) = 3
        /\ AnswerTo(call[c], 1).ok /\ AnswerTo(call[c], 2).ok
        /\ ~AnswerTo(call[c], 3).ok
        /\ call[c].err = ExitStatus
        /\ call[c].repo = ZeroRepository

\* the topology queries of every call are issued as buildRepository lists them
TopologyInOrder ==
    \A c \in DOMAIN call :
        call[c].op \in {"ResolveRepository", "Scan"} =>
            /\ IssuedInOrder(call[c].log)
            /\ StopsAtFirstFailure(call[c].log)

\* C13: the topology queries of a call are issued in the fixed order, each
\* at most once, none after the first failure; a call of readGitConfig or of
\* readGlobalConfig issues exactly one invocation.
C13_OrderedAtMostOnce ==
    /\ TopologyInOrder
    /\ \A c \in DOMAIN call :
           /\ (call[c].op = "readGlobalConfig" /\ Returned(c)) =>
                  Queries(call[c].log) = <<ConfigListGlobal>>
           /\ (call[c].op = "readGitConfig" /\ Returned(c)) =>
                  Queries(call[c].log) = <<ConfigList>>

\* a resolution that stopped at its second query, which failed
C13_Witness ==
    \E c \in DOMAIN call :
        /\ call[c].op = "ResolveRepository" /\ Returned(c)
        /\ Queries(call[c].log) = <<ShowTopLevel, GitDir>>
        /\ call[c].log[1].err = NilError
        /\ call[c].log[2].err = ExitStatus

\* the call of caller c has returned a Repository without error
Resolved(c) ==
    /\ call[c].op = "ResolveRepository"
    /\ Returned(c)
    /\ call[c].err = NilError

\* C14: a returned Repository is never both bare and a linked worktree; it
\* is a linked worktree exactly when it is not bare and its cleaned metadata
\* directory differs from its cleaned common metadata directory.
C14_WorktreeIffDirsDiffer ==
    \A c \in DOMAIN call :
        Resolved(c) =>
            LET f == call[c]
            IN /\ ~(f.repo.IsBare /\ f.repo.IsWorktree)
               /\ f.repo.IsWorktree <=>
                      (~f.repo.IsBare /\ Clean(f.gitDir) # Clean(f.gitCommonDir))
               /\ f.repo.IsBare => ~f.repo.IsWorktree

\* a repository that is not bare, whose two directories are written
\* differently and are the same once cleaned: not a linked worktree
C14_Witness ==
    \E c \in DOMAIN call :
        /\ Resolved(c)
        /\ ~call[c].repo.IsBare
        /\ call[c].gitDir # call[c].gitCommonDir
        /\ Clean(call[c].gitDir) = Clean(call[c].gitCommonDir)
        /\ ~call[c].repo.IsWorktree

\* the path is empty or holds white space only
IsBlank(p) == TrimSpace(p) = <<>>

\* C17 as stated: a resolution called with an empty or blank path, under a
\* context that is not cancelled, fails with the invalid-argument error
\* before any external invocation is issued.
C17_AsStated ==
    \A c \in DOMAIN call :
        (/\ call[c].op = "ResolveRepository"
         /\ Returned(c)
         /\ ~call[c].cancelled
         /\ IsBlank(call[c].path)) =>
            /\ call[c].err = "path cannot be empty"
            /\ call[c].log = <<>>

\* the segments of a path: what stands between its separators
Segments(p) == SelectSeq(Split(p, "/"), LAMBDA s : s # <<>>)

\* C18 as stated: the name of a returned Repository is the final segment of
\* its top-level path, or the placeholder when that path has no segment; it
\* is never empty and never the root marker.
C18_AsStated ==
    \A c \in DOMAIN call :
        Resolved(c) =>
            LET segs == Segments(call[c].repo.Path)
                name == call[c].repo.Name
            IN /\ name # <<>>
               /\ name # <<"/">>
               /\ name = IF segs = <<>> THEN Placeholder ELSE segs[Len(segs)]

----------------------------------------------------------------------------
(* The Service: roots, Scan, the configuration calls, and their callers *)

\* s.mu is read-locked from the entry of GetEffectiveConfig to its return,
\* the external command included; a writer waits for it
ReadLocked ==
    \E c \in DOMAIN call :
        call[c].op = "GetEffectiveConfig" /\ call[c].pc = "readGitConfig"

\* the orders in which a range over a map may visit its elements
Orders(S) ==
    {s \in [1..Cardinality(S) -> S] :
        \A i, j \in 1..Cardinality(S) : i # j => s[i] # s[j]}

\* the bytes that occur in names, in byte order
ByteOrder == <<" ", ".", "/", "a", "b", "g", "s", "t", "x">>

Byte(ch) == CHOOSE i \in 1..Len(ByteOrder) : ByteOrder[i] = ch

\* Go's < on strings
RECURSIVE StringLess(_, _)
StringLess(a, b) ==
    IF b = <<>> THEN FALSE
    ELSE IF a = <<>> THEN TRUE
    ELSE IF a[1] # b[1] THEN Byte(a[1]) < Byte(b[1])
    ELSE StringLess(Tail(a), Tail(b))

\* a plausible slip: the list is returned in the order the map gave
SortByName_Unsorted(repos) == Orders(repos)

\* sort.Slice(results, by Name) over the values of a map: any order of them
\* that is ascending in Name (the sort is not stable, the map has no order)
SortByName(repos) ==
    {s \in Orders(repos) :
        \A i, j \in 1..Len(s) : i < j => ~StringLess(s[j].Name, s[i].Name)}

Values(m) == {m[k] : k \in DOMAIN m}

AddRootInputs ==
    {<<>>, <<"/", "a", "/">>, <<"/", "a", "/", "s">>, <<"/", "b">>, <<"/", "x">>}

RemoveRootInputs ==
    {<<"/", "a", "/">>, <<"/", "a">>, <<"/", "b">>, <<"/", "x">>}

ResolveInputs == {<<>>, <<"/", "a", "/", "s">>, <<"/", "t">>}

WorldPaths ==
    {<<" ">>, <<"/", "a">>, <<"/", "a", "/", "s">>, <<"/", "b">>, <<"/", "t">>,
     <<"/", "x">>}

Topology(t, g, k, b, s) ==
    (ShowTopLevel :> t) @@ (GitDir :> g) @@ (GitCommonDir :> k)
        @@ (IsBareRepository :> b) @@ (ShowSuperproject :> s)

NotBare == Outputs(<<"f", "a", "l", "s", "e", LF>>)

\* a file system with the repository /a (asked for at /a and inside it at
\* /a/s), its linked worktree /t, the repository /b, and nothing else
WorldTopology(p) ==
    CASE p = <<"/", "a">> ->
            Topology(Outputs(<<"/", "a", LF>>), Outputs(<<".", "g", LF>>),
                     Outputs(<<".", "g", LF>>), NotBare, Outputs(<<>>))
      [] p = <<"/", "a", "/", "s">> ->
            Topology(Outputs(<<"/", "a", LF>>),
                     Outputs(<<"/", "a", "/", ".", "g", LF>>),
                     Outputs(<<"/", "a", "/", ".", "g", LF>>), NotBare,
                     Outputs(<<>>))
      [] p = <<"/", "t">> ->
            Topology(Outputs(<<"/", "t", LF>>),
                     Outputs(<<"/", "a", "/", ".", "g", "/", "t", LF>>),
                     Outputs(<<"/", "a", "/", ".", "g", LF>>), NotBare,
                     Outputs(<<>>))
      [] p = <<"/", "b">> ->
            Topology(Outputs(<<"/", "b", LF>>), Outputs(<<".", "g", LF>>),
                     Outputs(<<".", "g", LF>>), NotBare, Outputs(<<>>))
      [] OTHER -> NoTopology

WorldConfig(p) ==
    CASE p = <<"/", "a">> -> Outputs(TwoEntryListing)
      [] p = <<"/", "b">> -> Outputs(OneEntryListing)
      [] OTHER -> Fails

World ==
    [revparse |-> [p \in WorldPaths |-> WorldTopology(p)],
     config |-> [p \in WorldPaths |-> WorldConfig(p)],
     global |-> Outputs(OneEntryListing)]

\* the instants the clock may show
Instants == {1, 2}

MaxRoots == 2

Global == <<"g", "l", "o", "b", "a", "l">>

\* the ids a caller may ask the configuration of: the stored ones and one
\* that no repository has
RepositoryIDs == {ensureID(<<"/", "a">>), ensureID(<<"/", "x">>)}

Init ==
    /\ NoReader
    /\ NewService
    /\ now = 1
    /\ tool = World
    /\ call = [c \in Callers |-> Idle]

\* time passes; only the difference between two instants matters
Tick ==
    /\ now' \in Instants \ {now}
    /\ UNCHANGED <<readerVars, sharedVars, call, tool>>

AddRoot(path) ==
    /\ ~ReadLocked
    /\ Cardinality(roots \cup {Clean(path)}) <= MaxRoots
    /\ roots' = IF path = <<>> THEN roots ELSE roots \cup {Clean(path)}
    /\ UNCHANGED <<readerVars, repositories, includeRules, changeSets, call, tool, now>>

RemoveRoot(path) ==
    /\ ~ReadLocked
    /\ roots' = roots \ {path}
    /\ UNCHANGED <<readerVars, repositories, includeRules, changeSets, call, tool, now>>

\* a caller enters a call under a context that may be cancelled already
CallResolveRepository(c) ==
    /\ call[c].pc = "idle"
    /\ \E path \in ResolveInputs, x \in BOOLEAN :
           call' = [call EXCEPT ![c] = Entered("ResolveRepository", "resolve", path, x)]
    /\ UNCHANGED <<readerVars, sharedVars, tool, now>>

CallScan(c) ==
    /\ call[c].pc = "idle"
    /\ \E x \in BOOLEAN :
           call' = [call EXCEPT ![c] = Entered("Scan", "Scan", <<>>, x)]
    /\ UNCHANGED <<readerVars, sharedVars, tool, now>>

CallGetGlobalConfig(c) ==
    /\ call[c].pc = "idle"
    /\ \E x \in BOOLEAN :
           call' = [call EXCEPT ![c] = Entered("GetGlobalConfig", "GetGlobalConfig", <<>>, x)]
    /\ UNCHANGED <<readerVars, sharedVars, tool, now>>

CallGetEffectiveConfig(c) ==
    /\ call[c].pc = "idle"
    /\ \E id \in RepositoryIDs, x \in BOOLEAN :
           call' = [call EXCEPT ![c] =
               [Entered("GetEffectiveConfig", "GetEffectiveConfig", <<>>, x)
                   EXCEPT !.repositoryID = id]]
    /\ UNCHANGED <<readerVars, sharedVars, tool, now>>

\* the caller has its result
Return(c) ==
    /\ call[c].pc = "done"
    /\ call' = [call EXCEPT ![c] = Idle]
    /\ UNCHANGED <<readerVars, sharedVars, tool, now>>

\* a plausible slip: the stored set is emptied when the Scan starts and
\* filled again when it ends
Scan_ClearsFirst(c) ==
    /\ call[c].pc = "Scan"
    /\ IF call[c].cancelled
       THEN /\ call' = [call EXCEPT ![c] =
                   [call[c] EXCEPT !.pc = "done", !.results = NilSlice,
                                   !.err = ContextCanceled]]
            /\ UNCHANGED repositories
       ELSE /\ \E order \in Orders(roots) :
                   call' = [call EXCEPT ![c] =
                       [call[c] EXCEPT !.pc = "scan", !.scanRoots = order,
                                       !.scanned = 0, !.discovered = EmptyMap]]
            /\ repositories' = EmptyMap
    /\ UNCHANGED <<readerVars, roots, includeRules, changeSets, tool, now>>

\* Service.Scan to the end of its snapshot of the roots
Scan(c) ==
    /\ call[c].pc = "Scan"
    /\ IF call[c].cancelled
       THEN call' = [call EXCEPT ![c] =
                [call[c] EXCEPT !.pc = "done", !.results = NilSlice,
                                !.err = ContextCanceled]]
       ELSE \E order \in Orders(roots) :
                call' = [call EXCEPT ![c] =
                    [call[c] EXCEPT !.pc = "scan", !.scanRoots = order,
                                    !.scanned = 0, !.discovered = EmptyMap]]
    /\ UNCHANGED <<readerVars, sharedVars, tool, now>>

\* the head of Scan's loop over its snapshot
ScanRoot(c) ==
    /\ call[c].pc = "scan"
    /\ call[c].scanned < Len(call[c].scanRoots)
    /\ call' = [call EXCEPT ![c] =
           IF call[c].cancelled
           THEN [Idle EXCEPT !.op = "Scan", !.pc = "done", !.cancelled = TRUE,
                             !.scanned = call[c].scanned,
                             !.results = NilSlice, !.err = ContextCanceled]
           ELSE [call[c] EXCEPT !.pc = "build",
                                !.path = call[c].scanRoots[call[c].scanned + 1]]]
    /\ UNCHANGED <<readerVars, sharedVars, tool, now>>

\* a plausible slip: the Scan adds what it discovered to the stored set
ScanCommit_Merges(c) ==
    /\ call[c].pc = "scan"
    /\ call[c].scanned = Len(call[c].scanRoots)
    /\ ~ReadLocked
    /\ \E sorted \in SortByName(Values(call[c].discovered)) :
           call' = [call EXCEPT ![c] =
               [call[c] EXCEPT !.pc = "done", !.results = MakeSlice(sorted),
                               !.err = NilError]]
    /\ repositories' = call[c].discovered @@ repositories
    /\ UNCHANGED <<readerVars, roots, includeRules, changeSets, tool, now>>

\* the end of Scan: the sorted list, and the stored set replaced
ScanCommit(c) ==
    /\ call[c].pc = "scan"
    /\ call[c].scanned = Len(call[c].scanRoots)
    /\ ~ReadLocked
    /\ \E sorted \in SortByName(Values(call[c].discovered)) :
           call' = [call EXCEPT ![c] =
               [call[c] EXCEPT !.pc = "done", !.results = MakeSlice(sorted),
                               !.err = NilError]]
    /\ repositories' = call[c].discovered
    /\ UNCHANGED <<readerVars, roots, includeRules, changeSets, tool, now>>

GetGlobalConfig(c) ==
    /\ call[c].pc = "GetGlobalConfig"
    /\ call' = [call EXCEPT ![c] =
           IF call[c].cancelled
           THEN [call[c] EXCEPT !.pc = "done", !.matrix = ZeroConfigMatrix,
                                !.err = ContextCanceled]
           ELSE [call[c] EXCEPT !.pc = "readGlobalConfig",
                                !.repositoryID = Global]]
    /\ UNCHANGED <<readerVars, sharedVars, tool, now>>

\* a plausible slip: the map is read without the ok of the lookup, and an
\* id that is not stored goes on to readGitConfig with the zero Repository
GetEffectiveConfig_NoLookupCheck(c) ==
    /\ call[c].pc = "GetEffectiveConfig"
    /\ call' = [call EXCEPT ![c] =
           IF call[c].cancelled
           THEN [call[c] EXCEPT !.pc = "done", !.matrix = ZeroConfigMatrix,
                                !.err = ContextCanceled]
           ELSE [call[c] EXCEPT !.pc = "readGitConfig",
                                !.path = IF call[c].repositoryID \in DOMAIN repositories
                                         THEN repositories[call[c].repositoryID].Path
                                         ELSE ZeroRepository.Path]]
    /\ UNCHANGED <<readerVars, sharedVars, tool, now>>

\* Service.GetEffectiveConfig up to its call of readGitConfig
GetEffectiveConfig(c) ==
    /\ call[c].pc = "GetEffectiveConfig"
    /\ call' = [call EXCEPT ![c] =
           IF call[c].cancelled
           THEN [call[c] EXCEPT !.pc = "done", !.matrix = ZeroConfigMatrix,
                                !.err = ContextCanceled]
           ELSE IF call[c].repositoryID \notin DOMAIN repositories
           THEN [call[c] EXCEPT !.pc = "done", !.matrix = ZeroConfigMatrix,
                                !.err = "repository not found"]
           ELSE [call[c] EXCEPT !.pc = "readGitConfig",
                                !.path = repositories[call[c].repositoryID].Path]]
    /\ UNCHANGED <<readerVars, sharedVars, tool, now>>

Next ==
    \/ Tick
    \/ \E path \in AddRootInputs : AddRoot(path)
    \/ \E path \in RemoveRootInputs : RemoveRoot(path)
    \/ \E c \in Callers :
        \/ CallResolveRepository(c)
        \/ CallScan(c)
        \/ CallGetGlobalConfig(c)
        \/ CallGetEffectiveConfig(c)
        \/ Return(c)
        \/ ResolveRepository(c)
        \/ Scan(c)
        \/ ScanRoot(c)
        \/ ScanCommit(c)
        \/ GetGlobalConfig(c)
        \/ GetEffectiveConfig(c)
        \/ BuildRepository(c)
        \/ ReadGitConfig(c)
        \/ ReadGlobalConfig(c)
        \/ Cancel(c)

Spec == Init /\ [][Next]_vars

----------------------------------------------------------------------------
(* Claims about the Service *)

Elements(s) == {s[i] : i \in 1..Len(s)}

\* every Repository a resolution has produced and that is still held: by the
\* Service, by a Scan under way, or by a caller as its result
ResolvedRepositories ==
    (Values(repositories)
        \cup UNION {Values(call[c].discovered) \cup Elements(call[c].results.elems)
                        \cup {call[c].repo} : c \in DOMAIN call})
    \ {ZeroRepository}

\* C15: two resolutions that found the same top-level path gave the same id,
\* whatever the candidate path, the time and the state of the Service were.
C15_IdFromTopLevelOnly ==
    \A r1, r2 \in ResolvedRepositories :
        r1.Path = r2.Path => r1.ID = r2.ID

\* the stored Repository of a Scan and the result of a later
\* ResolveRepository from another candidate path at another time, for the
\* same top level
C15_Witness ==
    \E c \in DOMAIN call, r \in Values(repositories) :
        /\ call[c].op = "ResolveRepository" /\ Returned(c)
        /\ call[c].err = NilError
        /\ call[c].repo.Path = r.Path
        /\ call[c].repo.Root # r.Root
        /\ call[c].repo.LastScanTime # r.LastScanTime
        /\ call[c].repo.ID = r.ID

\* the call was cut short by the cancellation of its context: its check of
\* the context found it cancelled, or its last invocation was refused or
\* killed because of it
Interrupted(f) ==
    \/ f.log = <<>> /\ f.err = ContextCanceled
    \/ /\ f.log # <<>>
       /\ f.cancelled
       /\ f.log[Len(f.log)].err \in {ContextCanceled, SignalKilled}

\* the call handed no data to its caller
NoData(f) ==
    /\ f.repo = ZeroRepository
    /\ f.results = NilSlice
    /\ f.matrix = ZeroConfigMatrix

\* C16 as stated: a call of ResolveRepository, Scan, GetEffectiveConfig or
\* GetGlobalConfig that was cut short by the cancellation of its context,
\* at entry or while a query was running, returns the cancellation error
\* and no data.
C16_AsStated ==
    \A c \in DOMAIN call :
        (/\ Returned(c)
         /\ call[c].op \in {"ResolveRepository", "Scan", "GetEffectiveConfig",
                            "GetGlobalConfig"}
         /\ Interrupted(call[c])) =>
            /\ call[c].err = ContextCanceled
            /\ NoData(call[c])

\* the calls that only resolve
Resolving == {"ResolveRepository", "GetEffectiveConfig", "GetGlobalConfig"}

\* C19: no step of ResolveRepository, GetEffectiveConfig or GetGlobalConfig,
\* from its entry to its return, with or without error, changes the roots,
\* the repositories, the include rules or the change sets of the Service.
C19_ResolvingLeavesServiceAlone ==
    [][(\E c \in DOMAIN call :
            /\ call'[c] # call[c]
            /\ call[c].op \in Resolving \/ call'[c].op \in Resolving) =>
           UNCHANGED <<roots, repositories, includeRules, changeSets>>]_vars

\* GetEffectiveConfig has returned the configuration of a stored repository
\* of a Service that tracks roots
C19_Witness ==
    \E c \in DOMAIN call :
        /\ call[c].op = "GetEffectiveConfig" /\ Returned(c)
        /\ call[c].err = NilError
        /\ call[c].matrix.RepositoryID \in DOMAIN repositories
        /\ DOMAIN call[c].matrix.Entries # {}
        /\ roots # {}

\* C20: the list a successful Scan returns is ascending in Name and holds
\* every discovered id once and no other, also when two roots of the
\* snapshot resolved to the same repository.
C20_SortedAndUnique ==
    \A c \in DOMAIN call :
        (call[c].op = "Scan" /\ Returned(c) /\ call[c].err = NilError) =>
            LET rs == call[c].results.elems
            IN /\ \A i, j \in 1..Len(rs) :
                      i < j => ~StringLess(rs[j].Name, rs[i].Name)
               /\ \A i, j \in 1..Len(rs) : i # j => rs[i].ID # rs[j].ID
               /\ {rs[i].ID : i \in 1..Len(rs)} =
                      {ensureID(TrimSpace(tool.revparse[p][ShowTopLevel].out)) :
                          p \in Elements(call[c].scanRoots)}

\* a Scan over two roots that are one repository has returned one element
C20_Witness ==
    \E c \in DOMAIN call :
        /\ call[c].op = "Scan" /\ Returned(c) /\ call[c].err = NilError
        /\ Len(call[c].scanRoots) = 2
        /\ Len(call[c].results.elems) = 1

----------------------------------------------------------------------------
(* buildConfigValues on records that arrive out of order *)

MaxRecords == 3

RecordKeys == {<<"k">>, <<"m">>}

RecordValues == {<<"v">>, <<"w">>}

RecordScopes == {<<"g">>, <<"l">>}

\* n records with the sequence numbers 0..n-1, each number once, in any
\* arrangement
RecordLists(n) ==
    {[i \in 1..n |-> [key |-> ks[i], value |-> vs[i], scope |-> ss[i],
                      file |-> <<"f">>, line |-> 0, order |-> os[i] - 1]] :
        ks \in [1..n -> RecordKeys], vs \in [1..n -> RecordValues],
        ss \in [1..n -> RecordScopes],
        os \in {p \in [1..n -> 1..n] : \A i, j \in 1..n : i # j => p[i] # p[j]}}

InitPermuted ==
    /\ pc = "parsed"
    /\ raw = <<>>
    /\ entries \in UNION {RecordLists(n) : n \in 0..MaxRecords}
    /\ err = NilError
    /\ values = <<>>
    /\ keyValueRaw = <<>> /\ key = <<>> /\ value = <<>>
    /\ origin = <<>> /\ file = <<>> /\ line = 0
    /\ NoService

NextPermuted == BuildConfigValues

SpecPermuted == InitPermuted /\ [][NextPermuted]_vars

\* the records of es arranged by ascending sequence number
InSequence(es) ==
    [i \in 1..Len(es) |->
        es[CHOOSE j \in 1..Len(es) :
               Cardinality({h \in 1..Len(es) : es[h].order < es[j].order}) = i - 1]]

\* C21: for records with distinct sequence numbers in any arrangement, the
\* mapping buildConfigValues returns (effective value, source and overrides
\* of every key) is the one it returns for the same records arranged by
\* sequence number.
C21_InputOrderIrrelevant ==
    pc = "built" => values = buildConfigValues(InSequence(entries))

\* three records of one key, the latest first and the earliest last,
\* resolved to the latest with the other two as overrides
C21_Witness ==
    /\ pc = "built"
    /\ Len(entries) = 3
    /\ \A i \in 1..3 : entries[i].key = entries[1].key /\ entries[i].order = 3 - i
    /\ entries[1].value # entries[3].value
    /\ values[entries[1].key].Value = entries[1].value
    /\ Len(values[entries[1].key].Overrides.elems) = 2

\* C22 as stated: the entry of a key that has a single record carries an
\* overrides list that is present (not nil) and has length 0.
C22_AsStated ==
    pc = "built" =>
        \A k \in Keys :
            Cardinality(RecordsOf(k)) = 1 =>
                /\ ~values[k].Overrides.isNil
                /\ Len(values[k].Overrides.elems) = 0

\* what the tool reported for the i-th query of a call, white space trimmed
Reported(f, i) == TrimSpace(AnswerTo(f, i).out)

\* dir as seen from the directory top: top itself when dir is empty
Under(top, dir) ==
    IF dir = <<>> THEN Clean(top) ELSE Clean(top \o <<"/">> \o dir)

\* C23: in a returned Repository the metadata directory is absolute, and so
\* is the common one the resolver worked with: a directory the tool
\* reported as relative is the top-level directory joined with it, one
\* reported as absolute is as reported.
C23_MetadataDirsAbsolute ==
    \A c \in DOMAIN call :
        Resolved(c) =>
            LET f == call[c]
            IN /\ IsAbs(f.repo.GitDir)
               /\ IsAbs(f.gitCommonDir)
               /\ f.repo.GitDir =
                      IF IsAbs(Reported(f, 2)) THEN Reported(f, 2)
                      ELSE Under(f.repo.Path, Reported(f, 2))
               /\ f.gitCommonDir =
                      IF IsAbs(Reported(f, 3)) THEN Reported(f, 3)
                      ELSE Under(f.repo.Path, Reported(f, 3))

\* a repository whose metadata directory was reported as .g and whose
\* common one was reported as an absolute path
C23_Witness ==
    \E c \in DOMAIN call :
        /\ Resolved(c)
        /\ Reported(call[c], 2) = <<".", "g">>
        /\ call[c].repo.Path = <<"/", "a">>
        /\ call[c].repo.GitDir = <<"/", "a", "/", ".", "g">>
        /\ IsAbs(Reported(call[c], 3))

\* the top-level query of the call ran to its end and printed white space
\* only
EmptyTopLevel(f) ==
    /\ f.log # <<>>
    /\ f.log[1].err = NilError
    /\ Reported(f, 1) = <<>>

\* C24: a resolution whose top-level query succeeded with an output that is
\* empty once trimmed has failed with an error, has issued no other query
\* and has returned no Repository.
C24_EmptyTopLevelFails ==
    \A c \in DOMAIN call :
        (call[c].op = "ResolveRepository" /\ Returned(c) /\ EmptyTopLevel(call[c])) =>
            /\ call[c].err = "git repository root is empty"
            /\ Queries(call[c].log) = <<ShowTopLevel>>
            /\ call[c].repo = ZeroRepository

\* a resolution whose top-level query printed a line feed and nothing else,
\* while the other four queries would have succeeded
C24_Witness ==
    \E c \in DOMAIN call :
        /\ call[c].op = "ResolveRepository" /\ Returned(c)
        /\ EmptyTopLevel(call[c])
        /\ AnswerTo(call[c], 1).out = <<LF>>
        /\ \A q \in {GitDir, GitCommonDir, IsBareRepository, ShowSuperproject} :
               tool.revparse[call[c].path][q].ok
        /\ call[c].err # NilError

\* caller c takes a step of the call op
StepOf(c, op) == call'[c] # call[c] /\ (call[c].op = op \/ call'[c].op = op)

\* caller c takes the last step of a Scan that succeeds
Commits(c) ==
    /\ call[c].op = "Scan" /\ call[c].pc = "scan"
    /\ call'[c].pc = "done" /\ call'[c].err = NilError

\* C25: GetEffectiveConfig goes on to read a configuration, and succeeds,
\* only for an id that is stored; for an id that is not stored it returns
\* the not-found error and has issued no invocation.  The stored set
\* changes only when a Scan succeeds, and is then exactly what that Scan
\* discovered and returns; ResolveRepository never changes it.
C25_OnlyScannedIds ==
    /\ [][\A c \in DOMAIN call :
              StepOf(c, "GetEffectiveConfig") =>
                  /\ (\/ call'[c].pc = "readGitConfig"
                      \/ call'[c].pc = "done" /\ call'[c].err = NilError) =>
                         call[c].repositoryID \in DOMAIN repositories
                  /\ (/\ call[c].pc = "GetEffectiveConfig"
                      /\ call'[c].pc # "GetEffectiveConfig"
                      /\ ~call[c].cancelled
                      /\ call[c].repositoryID \notin DOMAIN repositories) =>
                         /\ call'[c].pc = "done"
                         /\ call'[c].err = "repository not found"
                         /\ call'[c].log = <<>>
                         /\ call'[c].matrix = ZeroConfigMatrix]_vars
    /\ [][repositories' # repositories =>
              \E c \in DOMAIN call :
                  /\ Commits(c)
                  /\ repositories' = call[c].discovered
                  /\ Values(repositories') = Elements(call'[c].results.elems)]_vars

\* GetEffectiveConfig has answered not-found, without an invocation, for an
\* id that the stored set of the last Scan does not hold
C25_Witness ==
    \E c \in DOMAIN call :
        /\ call[c].op = "GetEffectiveConfig" /\ Returned(c)
        /\ call[c].err = "repository not found"
        /\ call[c].log = <<>>
        /\ repositories # EmptyMap
        /\ call[c].repositoryID \notin DOMAIN repositories

\* C26: a Scan that has failed, because a root did not resolve or because
\* its context was cancelled before or between roots, has returned an error
\* and no list; and no step of a Scan other than the last step of one that
\* succeeds changes the stored repositories or the tracked roots, whatever
\* the Scan had resolved by then.
C26_FailedScanChangesNothing ==
    /\ [](\A c \in DOMAIN call :
              (call[c].op = "Scan" /\ Returned(c) /\ call[c].err # NilError) =>
                  call[c].results = NilSlice)
    /\ [][\A c \in DOMAIN call :
              (StepOf(c, "Scan") /\ ~Commits(c)) =>
                  UNCHANGED <<roots, repositories>>]_vars
    /\ [][\A c \in DOMAIN call : StepOf(c, "Scan") => roots' = roots]_vars

\* a Scan has failed at its second root after it had resolved the first,
\* and the stored set of an earlier Scan is still there
C26_Witness ==
    \E c \in DOMAIN call :
        /\ call[c].op = "Scan" /\ Returned(c)
        /\ call[c].err = ExitStatus
        /\ call[c].scanned = 1
        /\ call[c].results = NilSlice
        /\ repositories # EmptyMap

----------------------------------------------------------------------------
(* Two callers at once: Scans, readers, and changes of the roots *)

Scanners == {"c1", "c2"}

\* the roots that come and go while the Scans run: a directory inside the
\* repository /a, and the repository /b
ConcurrentRoots == {<<"/", "a", "/", "s">>, <<"/", "b">>}

InitConcurrent ==
    /\ NoReader
    /\ NewService
    /\ now = 1
    /\ tool = World
    /\ call = [c \in Scanners |-> Idle]

NextConcurrent ==
    \/ \E path \in ConcurrentRoots : AddRoot(path)
    \/ \E path \in ConcurrentRoots : RemoveRoot(path)
    \/ \E c \in Scanners :
        \/ CallScan(c)
        \/ CallGetEffectiveConfig(c)
        \/ Return(c)
        \/ Scan(c)
        \/ ScanRoot(c)
        \/ ScanCommit(c)
        \/ GetEffectiveConfig(c)
        \/ BuildRepository(c)
        \/ ReadGitConfig(c)

SpecConcurrent == InitConcurrent /\ [][NextConcurrent]_vars

\* the top level the tool reports for a path
TopLevelOf(p) == Clean(TrimSpace(tool.revparse[p][ShowTopLevel].out))

\* C27: with Scans, readers, AddRoot and RemoveRoot interleaved, the stored
\* set changes only in the last step of a Scan that succeeds, and then to
\* exactly the map that Scan built: one record for each root of the snapshot
\* it took at its start and no other; and while GetEffectiveConfig holds the
\* record it looked up, the set does not change and still has that record.
C27_AtomicReplacement ==
    /\ [][repositories' # repositories =>
              \E c \in DOMAIN call :
                  /\ Commits(c)
                  /\ call[c].scanned = Len(call[c].scanRoots)
                  /\ repositories' = call[c].discovered
                  /\ \A id \in DOMAIN repositories' :
                         repositories'[id].Root \in Elements(call[c].scanRoots)
                  /\ \A r \in Elements(call[c].scanRoots) :
                         \E id \in DOMAIN repositories' :
                             /\ id = ensureID(TopLevelOf(r))
                             /\ repositories'[id].Path = TopLevelOf(r)]_vars
    /\ [][\A c \in DOMAIN call : Commits(c) =>
              repositories' = call[c].discovered]_vars
    /\ [][ReadLocked => repositories' = repositories]_vars
    /\ [](\A c \in DOMAIN call :
              (call[c].op = "GetEffectiveConfig" /\ call[c].pc = "readGitConfig") =>
                  /\ call[c].repositoryID \in DOMAIN repositories
                  /\ call[c].path = repositories[call[c].repositoryID].Path)

\* one Scan has committed the snapshot it took before a root was removed
\* and another was added, over the set another Scan had stored, while the
\* other caller's Scan is under way
C27_Witness ==
    \E c, d \in DOMAIN call :
        /\ c # d
        /\ call[c].op = "Scan" /\ Returned(c) /\ call[c].err = NilError
        /\ repositories = call[c].discovered
        /\ Elements(call[c].scanRoots) # roots
        /\ call[d].op = "Scan" /\ call[d].pc = "scan"
        /\ call[d].discovered # EmptyMap
        /\ DOMAIN call[d].discovered # DOMAIN repositories

----------------------------------------------------------------------------
(* A client that adds a root and removes it again *)

\* sort.Strings over the keys of the map
ListRoots(rs) ==
    CHOOSE s \in Orders(rs) :
        \A i, j \in 1..Len(s) : i < j => StringLess(s[i], s[j])

\* the paths a client may name
RootInputs ==
    {<<>>, <<"/", "a">>, <<"/", "a", "/">>, <<"/", "b", "/", ".">>,
     <<"/", "a", "/", "s">>, <<"/", "x">>}

\* what AddRoot has registered by the time the client comes
TrackedRoots == {Clean(p) : p \in RootInputs \ {<<>>}}

\* the client's frame: the path it names, what ListRoots gave before, and
\* what it gives after
Client(at, path, before, listed, e) ==
    [op |-> "client", pc |-> at, path |-> path, before |-> before,
     listed |-> listed, err |-> e]

InitRoots ==
    /\ NoReader
    /\ roots \in {rs \in SUBSET TrackedRoots : Cardinality(rs) <= MaxRoots}
    /\ repositories = EmptyMap
    /\ includeRules = EmptyMap
    /\ changeSets = EmptyMap
    /\ now = 1
    /\ tool = World
    /\ \E path \in RootInputs :
           call = [c \in Callers |->
                      Client("AddRoot", path, ListRoots(roots), <<>>, NilError)]

\* App.AddRoot(path)
ClientAddRoot(c) ==
    /\ call[c].op = "client" /\ call[c].pc = "AddRoot"
    /\ roots' = IF call[c].path = <<>> THEN roots
                ELSE roots \cup {Clean(call[c].path)}
    /\ call' = [call EXCEPT ![c] =
           [call[c] EXCEPT !.pc = "RemoveRoot",
                           !.err = IF call[c].path = <<>>
                                   THEN "path cannot be empty" ELSE NilError]]
    /\ UNCHANGED <<readerVars, repositories, includeRules, changeSets, tool, now>>

\* App.RemoveRoot(path), with the argument AddRoot had
ClientRemoveRoot(c) ==
    /\ call[c].op = "client" /\ call[c].pc = "RemoveRoot"
    /\ roots' = roots \ {call[c].path}
    /\ call' = [call EXCEPT ![c].pc = "ListRoots"]
    /\ UNCHANGED <<readerVars, repositories, includeRules, changeSets, tool, now>>

\* App.ListRoots()
ClientListRoots(c) ==
    /\ call[c].op = "client" /\ call[c].pc = "ListRoots"
    /\ call' = [call EXCEPT ![c] =
           [call[c] EXCEPT !.pc = "done", !.listed = ListRoots(roots)]]
    /\ UNCHANGED <<readerVars, sharedVars, tool, now>>

NextRoots ==
    \E c \in Callers :
        \/ ClientAddRoot(c)
        \/ ClientRemoveRoot(c)
        \/ ClientListRoots(c)

SpecRoots == InitRoots /\ [][NextRoots]_vars

\* C28, as the specification states it: when a client has added a path that
\* is not empty and was not tracked, under the name given or the cleaned
\* one, and has removed it again with the same argument, ListRoots gives
\* what it gave before, and the root registered for the path is not in it.
C28_AsStated ==
    \A c \in DOMAIN call :
        (/\ call[c].op = "client" /\ call[c].pc = "done"
         /\ call[c].path # <<>>
         /\ call[c].path \notin Elements(call[c].before)
         /\ Clean(call[c].path) \notin Elements(call[c].before)) =>
            /\ call[c].listed = call[c].before
            /\ Clean(call[c].path) \notin Elements(call[c].listed)

----------------------------------------------------------------------------
(* The change sets, the include rules and the diagnostics *)

\* the ChangeSet and IncludeRule that an error is returned with
ZeroChangeSet ==
    [ID |-> <<>>, RepositoryID |-> <<>>, Scope |-> <<>>, FilePath |-> <<>>,
     Diff |-> <<>>, BackupPath |-> <<>>, CreatedAt |-> <<>>]

ZeroIncludeRule ==
    [ID |-> <<>>, Pattern |-> <<>>, TargetPath |-> <<>>, Enabled |-> FALSE,
     LastUpdated |-> <<>>]

ZeroDiagnosticsReport == [RepositoryID |-> <<>>, CheckedAt |-> <<>>, Issues |-> NilSlice]

\* the ids uuid.NewString() may give: random ones, taken to differ from
\* every id in use
MaxIDs == 2

UUIDs == {<<"uuid4", n>> : n \in 1..MaxIDs}

InUse == DOMAIN changeSets \cup DOMAIN includeRules

NewString == UUIDs \ InUse

Quote == "\""

\* fmt.Sprintf("+ %s = %q\n", key, value), for values that %q leaves as
\* they are between its quotes
DiffOf(k, v) ==
    <<"+", " ">> \o k \o <<" ", "=", " ", Quote>> \o v \o <<Quote, LF>>

ChangeSetOf(id, req, t) ==
    [ID |-> id, RepositoryID |-> req.RepositoryID, Scope |-> req.Scope,
     FilePath |-> req.TargetPath, Diff |-> DiffOf(req.Key, req.Value),
     BackupPath |-> <<>>, CreatedAt |-> timestamp(t)]

\* the repository the requests are about
TheRepository == ensureID(<<"/", "a">>)

WriteRequests ==
    {[RepositoryID |-> TheRepository, Scope |-> <<"l">>, Key |-> k,
      Value |-> <<"v">>, TargetPath |-> <<>>, DryRun |-> FALSE] :
        k \in {<<>>, <<"k">>}}

RuleIDs == {<<"r">>} \cup UUIDs

RuleInputs ==
    {[ID |-> id, Pattern |-> p, TargetPath |-> t, Enabled |-> TRUE,
      LastUpdated |-> <<>>] :
        id \in {<<>>, <<"r">>}, p \in {<<>>, <<"p">>},
        t \in {<<>>, <<"/", "i">>}}

\* a call of op with its arguments under a context that is or is not yet
\* cancelled
Requested(op, request, cancelled) ==
    [Entered(op, op, <<>>, cancelled) EXCEPT !.request = request]

\* the call returns (reply, e)
Replied(f, reply, e) == [f EXCEPT !.pc = "done", !.reply = reply, !.err = e]

CallWriteConfig(c) ==
    /\ call[c].pc = "idle"
    /\ NewString # {}
    /\ \E req \in WriteRequests, x \in BOOLEAN :
           call' = [call EXCEPT ![c] = Requested("WriteConfig", req, x)]
    /\ UNCHANGED <<readerVars, sharedVars, tool, now>>

WriteConfig(c) ==
    /\ call[c].pc = "WriteConfig"
    /\ LET f == call[c]
       IN IF f.cancelled
          THEN /\ call' = [call EXCEPT ![c] = Replied(f, ZeroChangeSet, ContextCanceled)]
               /\ UNCHANGED changeSets
          ELSE IF f.request.Key = <<>>
          THEN /\ call' = [call EXCEPT ![c] =
                      Replied(f, ZeroChangeSet, "key cannot be empty")]
               /\ UNCHANGED changeSets
          ELSE \E id \in NewString :
                   LET cs == ChangeSetOf(id, f.request, now)
                   IN /\ call' = [call EXCEPT ![c] = Replied(f, cs, NilError)]
                      /\ changeSets' = (cs.ID :> cs) @@ changeSets
    /\ UNCHANGED <<readerVars, roots, repositories, includeRules, tool, now>>

CallListChangeSets(c) ==
    /\ call[c].pc = "idle"
    /\ \E id \in {<<>>, TheRepository} :
           call' = [call EXCEPT ![c] = Requested("ListChangeSets", id, FALSE)]
    /\ UNCHANGED <<readerVars, sharedVars, tool, now>>

\* sort.Slice by CreatedAt, latest first: any such order
LatestFirst(changes) ==
    {s \in Orders(changes) :
        \A i, j \in 1..Len(s) : i < j => s[i].CreatedAt[1] >= s[j].CreatedAt[1]}

\* ListChangeSets takes no context
ListChangeSets(c) ==
    /\ call[c].pc = "ListChangeSets"
    /\ \E changes \in LatestFirst({cs \in Values(changeSets) :
                                      cs.RepositoryID = call[c].request}) :
           call' = [call EXCEPT ![c] = Replied(call[c], MakeSlice(changes), NilError)]
    /\ UNCHANGED <<readerVars, sharedVars, tool, now>>

CallRollback(c) ==
    /\ call[c].pc = "idle"
    /\ \E id \in UUIDs, x \in BOOLEAN :
           call' = [call EXCEPT ![c] = Requested("Rollback", id, x)]
    /\ UNCHANGED <<readerVars, sharedVars, tool, now>>

RollbackReply(f) ==
    IF f.cancelled THEN Replied(f, ZeroChangeSet, ContextCanceled)
    ELSE IF f.request \notin DOMAIN changeSets
    THEN Replied(f, ZeroChangeSet, "changeset not found")
    ELSE Replied(f, changeSets[f.request], NilError)

\* a plausible slip: the change set that is rolled back leaves the ledger
Rollback_Removes(c) ==
    /\ call[c].pc = "Rollback"
    /\ call' = [call EXCEPT ![c] = RollbackReply(call[c])]
    /\ changeSets' =
           IF call[c].cancelled THEN changeSets
           ELSE [id \in DOMAIN changeSets \ {call[c].request} |-> changeSets[id]]
    /\ UNCHANGED <<readerVars, roots, repositories, includeRules, tool, now>>

Rollback(c) ==
    /\ call[c].pc = "Rollback"
    /\ call' = [call EXCEPT ![c] = RollbackReply(call[c])]
    /\ UNCHANGED <<readerVars, sharedVars, tool, now>>

CallListRules(c) ==
    /\ call[c].pc = "idle"
    /\ \E x \in BOOLEAN :
           call' = [call EXCEPT ![c] = Requested("ListRules", <<>>, x)]
    /\ UNCHANGED <<readerVars, sharedVars, tool, now>>

\* sort.Slice by Pattern: any ascending order
ByPattern(rules) ==
    {s \in Orders(rules) :
        \A i, j \in 1..Len(s) : i < j => ~StringLess(s[j].Pattern, s[i].Pattern)}

ListRules(c) ==
    /\ call[c].pc = "ListRules"
    /\ IF call[c].cancelled
       THEN call' = [call EXCEPT ![c] = Replied(call[c], NilSlice, ContextCanceled)]
       ELSE \E rules \in ByPattern(Values(includeRules)) :
                call' = [call EXCEPT ![c] = Replied(call[c], MakeSlice(rules), NilError)]
    /\ UNCHANGED <<readerVars, sharedVars, tool, now>>

CallUpsertRule(c) ==
    /\ call[c].pc = "idle"
    /\ NewString # {}
    /\ \E rule \in RuleInputs, x \in BOOLEAN :
           call' = [call EXCEPT ![c] = Requested("UpsertRule", rule, x)]
    /\ UNCHANGED <<readerVars, sharedVars, tool, now>>

UpsertRule(c) ==
    /\ call[c].pc = "UpsertRule"
    /\ LET f == call[c]
       IN IF f.cancelled
          THEN /\ call' = [call EXCEPT ![c] = Replied(f, ZeroIncludeRule, ContextCanceled)]
               /\ UNCHANGED includeRules
          ELSE IF f.request.Pattern = <<>>
          THEN /\ call' = [call EXCEPT ![c] =
                      Replied(f, ZeroIncludeRule, "pattern cannot be empty")]
               /\ UNCHANGED includeRules
          ELSE IF f.request.TargetPath = <<>>
          THEN /\ call' = [call EXCEPT ![c] =
                      Replied(f, ZeroIncludeRule, "targetPath cannot be empty")]
               /\ UNCHANGED includeRules
          ELSE \E id \in IF f.request.ID = <<>> THEN NewString ELSE {f.request.ID} :
                   LET rule == [f.request EXCEPT !.ID = id,
                                                 !.LastUpdated = timestamp(now)]
                   IN /\ call' = [call EXCEPT ![c] = Replied(f, rule, NilError)]
                      /\ includeRules' = (id :> rule) @@ includeRules
    /\ UNCHANGED <<readerVars, roots, repositories, changeSets, tool, now>>

CallDeleteRule(c) ==
    /\ call[c].pc = "idle"
    /\ \E id \in RuleIDs, x \in BOOLEAN :
           call' = [call EXCEPT ![c] = Requested("DeleteRule", id, x)]
    /\ UNCHANGED <<readerVars, sharedVars, tool, now>>

\* a plausible slip: the rule is deleted before the context is looked at
DeleteRule_ThenContext(c) ==
    /\ call[c].pc = "DeleteRule"
    /\ call' = [call EXCEPT ![c] =
           Replied(call[c], <<>>,
                   IF call[c].cancelled THEN ContextCanceled ELSE NilError)]
    /\ includeRules' =
           [id \in DOMAIN includeRules \ {call[c].request} |-> includeRules[id]]
    /\ UNCHANGED <<readerVars, roots, repositories, changeSets, tool, now>>

DeleteRule(c) ==
    /\ call[c].pc = "DeleteRule"
    /\ IF call[c].cancelled
       THEN /\ call' = [call EXCEPT ![c] = Replied(call[c], <<>>, ContextCanceled)]
            /\ UNCHANGED includeRules
       ELSE /\ call' = [call EXCEPT ![c] = Replied(call[c], <<>>, NilError)]
            /\ includeRules' =
                   [id \in DOMAIN includeRules \ {call[c].request} |-> includeRules[id]]
    /\ UNCHANGED <<readerVars, roots, repositories, changeSets, tool, now>>

CallToggleRule(c) ==
    /\ call[c].pc = "idle"
    /\ \E id \in RuleIDs, enabled \in BOOLEAN, x \in BOOLEAN :
           call' = [call EXCEPT ![c] =
               Requested("ToggleRule", [id |-> id, enabled |-> enabled], x)]
    /\ UNCHANGED <<readerVars, sharedVars, tool, now>>

ToggleRule(c) ==
    /\ call[c].pc = "ToggleRule"
    /\ LET f == call[c]
       IN IF f.cancelled
          THEN /\ call' = [call EXCEPT ![c] = Replied(f, ZeroIncludeRule, ContextCanceled)]
               /\ UNCHANGED includeRules
          ELSE IF f.request.id \notin DOMAIN includeRules
          THEN /\ call' = [call EXCEPT ![c] =
                      Replied(f, ZeroIncludeRule, "rule not found")]
               /\ UNCHANGED includeRules
          ELSE LET rule == [includeRules[f.request.id] EXCEPT
                               !.Enabled = f.request.enabled,
                               !.LastUpdated = timestamp(now)]
               IN /\ call' = [call EXCEPT ![c] = Replied(f, rule, NilError)]
                  /\ includeRules' = [includeRules EXCEPT ![f.request.id] = rule]
    /\ UNCHANGED <<readerVars, roots, repositories, changeSets, tool, now>>

CallRunDiagnostics(c) ==
    /\ call[c].pc = "idle"
    /\ \E id \in {<<>>, TheRepository}, x \in BOOLEAN :
           call' = [call EXCEPT ![c] = Requested("RunDiagnostics", id, x)]
    /\ UNCHANGED <<readerVars, sharedVars, tool, now>>

\* the one issue of the canned report
CannedIssue ==
    [Severity |-> "info",
     Message |-> "Diagnostic subsystem is not yet wired to git CLI.",
     Suggestion |-> "Implement git config parity check."]

RunDiagnostics(c) ==
    /\ call[c].pc = "RunDiagnostics"
    /\ call' = [call EXCEPT ![c] =
           IF call[c].cancelled
           THEN Replied(call[c], ZeroDiagnosticsReport, ContextCanceled)
           ELSE IF call[c].request = <<>>
           THEN Replied(call[c], ZeroDiagnosticsReport, "repositoryID cannot be empty")
           ELSE Replied(call[c],
                        [RepositoryID |-> call[c].request,
                         CheckedAt |-> timestamp(now),
                         Issues |-> MakeSlice(<<CannedIssue>>)],
                        NilError)]
    /\ UNCHANGED <<readerVars, sharedVars, tool, now>>

\* the root that is tracked or not while the ledger is written
LedgerRoots == {<<"/", "a">>}

InitLedger ==
    /\ NoReader
    /\ NewService
    /\ now = 1
    /\ tool = World
    /\ call = [c \in Callers |-> Idle]

NextLedger ==
    \/ \E path \in LedgerRoots : AddRoot(path)
    \/ \E path \in LedgerRoots : RemoveRoot(path)
    \/ \E c \in Callers :
        \/ CallResolveRepository(c)
        \/ CallScan(c)
        \/ CallGetGlobalConfig(c)
        \/ CallGetEffectiveConfig(c)
        \/ CallWriteConfig(c)
        \/ CallListChangeSets(c)
        \/ CallRollback(c)
        \/ CallListRules(c)
        \/ CallUpsertRule(c)
        \/ CallDeleteRule(c)
        \/ CallToggleRule(c)
        \/ CallRunDiagnostics(c)
        \/ Return(c)
        \/ ResolveRepository(c)
        \/ Scan(c)
        \/ ScanRoot(c)
        \/ ScanCommit(c)
        \/ GetGlobalConfig(c)
        \/ GetEffectiveConfig(c)
        \/ BuildRepository(c)
        \/ ReadGitConfig(c)
        \/ ReadGlobalConfig(c)
        \/ WriteConfig(c)
        \/ ListChangeSets(c)
        \/ Rollback(c)
        \/ ListRules(c)
        \/ UpsertRule(c)
        \/ DeleteRule(c)
        \/ ToggleRule(c)
        \/ RunDiagnostics(c)
        \/ Cancel(c)

SpecLedger == InitLedger /\ [][NextLedger]_vars

\* the operations that take a context
ContextOperations ==
    {"ResolveRepository", "Scan", "GetGlobalConfig", "GetEffectiveConfig",
     "WriteConfig", "Rollback", "ListRules", "UpsertRule", "DeleteRule",
     "ToggleRule", "RunDiagnostics"}

\* the call has been entered and has not yet taken a step
AtEntry(f) ==
    /\ f.op \in ContextOperations
    /\ f.pc = IF f.op = "ResolveRepository" THEN "resolve" ELSE f.op

\* C29: the first step of each operation that takes a context, when the
\* context is cancelled by then, is its last: the call returns the
\* context's error, has issued no invocation, and roots, repositories,
\* include rules and change sets are as they were.
C29_CancelledCallDoesNothing ==
    [][\A c \in DOMAIN call :
           (AtEntry(call[c]) /\ call[c].cancelled /\ call'[c] # call[c]) =>
               /\ call'[c].pc = "done"
               /\ call'[c].err = ContextCanceled
               /\ call'[c].log = <<>>
               /\ UNCHANGED <<roots, repositories, includeRules, changeSets>>]_vars

\* UpsertRule of a rule it would have stored has returned the context's
\* error, on a service that has roots, repositories, rules and change sets
C29_Witness ==
    \E c \in DOMAIN call :
        /\ call[c].op = "UpsertRule" /\ Returned(c)
        /\ call[c].cancelled
        /\ call[c].err = ContextCanceled
        /\ call[c].request.Pattern # <<>> /\ call[c].request.TargetPath # <<>>
        /\ call[c].request.ID \notin DOMAIN includeRules
        /\ roots # {} /\ repositories # EmptyMap
        /\ includeRules # EmptyMap /\ changeSets # EmptyMap

\* the step in which WriteConfig returns
WriteConfigReturns(c) ==
    call[c].pc = "WriteConfig" /\ call'[c].pc = "done"

\* C30: every stored change set stays stored and as it is, whatever step
\* is taken; the ledger changes only when WriteConfig returns without
\* error, which it does for a key that is not empty under a context that
\* is not cancelled, and then by the one change set it returns, under an
\* id that was not in the ledger, with no invocation issued; with an empty
\* key it returns an error and the ledger is as it was; and what the tool
\* answers about the configuration never changes.
C30_LedgerAppendOnly ==
    [][/\ \A id \in DOMAIN changeSets :
              id \in DOMAIN changeSets' /\ changeSets'[id] = changeSets[id]
       /\ changeSets' # changeSets =>
              \E c \in DOMAIN call :
                  WriteConfigReturns(c) /\ call'[c].err = NilError
       /\ \A c \in DOMAIN call : WriteConfigReturns(c) =>
              /\ call'[c].log = <<>>
              /\ (call[c].request.Key # <<>> /\ ~call[c].cancelled) =>
                     /\ call'[c].err = NilError
                     /\ call'[c].reply.ID \notin DOMAIN changeSets
                     /\ DOMAIN changeSets' =
                            DOMAIN changeSets \cup {call'[c].reply.ID}
                     /\ changeSets'[call'[c].reply.ID] = call'[c].reply
              /\ (call[c].request.Key = <<>> /\ ~call[c].cancelled) =>
                     /\ call'[c].err = "key cannot be empty"
                     /\ changeSets' = changeSets
       /\ tool' = tool]_vars

\* WriteConfig has added a second change set to the ledger, and Rollback
\* of the first has returned it since
C30_Witness ==
    \E c \in DOMAIN call :
        /\ call[c].op = "Rollback" /\ Returned(c)
        /\ call[c].err = NilError
        /\ Cardinality(DOMAIN changeSets) = 2
        /\ call[c].request \in DOMAIN changeSets
        /\ call[c].reply = changeSets[call[c].request]
====
